---- MODULE Spec2Model ----
(***************************************************************************)
(* Model of the MCP tool registry (McpClientService) and of the retrieval  *)
(* orchestrator (RagService) of mcp-client-poc.                            *)
(*                                                                         *)
(* Every await of the TypeScript code is a step boundary: the statements   *)
(* between two awaits run without interleaving on the Node event loop and  *)
(* form one action.                                                        *)
(***************************************************************************)
EXTENDS Integers, Sequences, FiniteSets, TLC

(***************************************************************************)
(* Bounds of the model.                                                    *)
(***************************************************************************)
\* number of getTools()/monitor refreshes that may be in flight together
MaxRefresh == 2
\* number of callers of getTools() that are followed
MaxCallers == 2
\* longest catalog getToolByName is applied to
MaxCatalog == 3
\* most data rows of a response given to the normalizer
MaxRows == 2
\* number of processChat requests that are followed
MaxChats == 2
\* most rows the vector search of the RAG API returns
MaxFound == 2
\* records in a fused list given to formatRagContext
MaxRecords == 3
\* addToHistory calls that are followed
MaxAdds == 12
\* processQuery requests that are followed
MaxQueries == 2

(***************************************************************************)
(* Program constants of connectWithRetry.                                  *)
(***************************************************************************)
maxAttempts == 15
initialRetryDelay == 2000
maxRetryDelay == 20000
\* Math.random() * 1000 lies in [0, 1000)
jitterRange == 1000
\* ConfigService.chatHistoryLimit
chatHistoryLimit == 10

\* Delays are held in units of 1/Scale ms so that the repeated * 1.5 is exact:
\* at most five multiplications stay below the cap.
Scale == 2 ^ 5

\* the values Math.random() * 1000 is drawn from, in ms
JitterSet == {0, jitterRange - 1}

(***************************************************************************)
(* Configuration (env.config, app.mcp) and the backends' catalogs.         *)
(***************************************************************************)
Servers == {"s3", "postgres"}

\* the configurations the registry is started with: MCP_*_ENABLED unset, and
\* MCP_POSTGRES_ENABLED=false
Configs == {[s \in Servers |-> TRUE], [s \in Servers |-> s # "postgres"]}

S3Catalog == <<"list_buckets", "search_objects", "get_object_content">>
PgCatalog == <<"query", "list_schemas", "describe_table">>

\* what one client.getTools() can resolve with: the merged catalog of the
\* servers that answered, possibly empty
Catalogs == {<<>>, S3Catalog, S3Catalog \o PgCatalog}

\* the catalogs a retrieval can find: those, and the ones of a registry
\* whose object-store server gave no tool
RagCatalogs == (Catalogs \ {<<>>}) \cup {PgCatalog, <<"query">>}

\* client.getTools() rejected
FetchError == [kind |-> "error", tools |-> <<>>]
\* client.getTools() resolved with catalog c
Fetched(c) == [kind |-> "catalog", tools |-> c]
FetchOutcomes == {Fetched(c) : c \in Catalogs} \cup {FetchError}

\* no fetch of connectWithRetry has returned yet
NoFetch == [kind |-> "none", tools |-> <<>>]

VARIABLES
    mcpServers,      \* app.mcp: server name -> enabled flag
    client,          \* "none" | "open" | "closed": the MultiServerMCPClient
    tools,           \* this.tools
    isInitialized,   \* this.isInitialized
    connectionMonitorInterval, \* TRUE iff the setInterval timer is set
    initPc,          \* position of onModuleInit / connectWithRetry
    attempts,        \* local of connectWithRetry
    retryDelay,      \* local of connectWithRetry, in 1/Scale ms
    refreshing,      \* number of refreshTools() calls awaiting client.getTools()
    destroyPc,       \* position of onModuleDestroy
    \* observation of the run (history)
    jitterPart,      \* the jitter term inside retryDelay, in 1/Scale ms
    waitedBase,      \* jitter-free part of the delay of the last wait
    connectFetch,    \* what the last fetch of connectWithRetry returned
    contacted,       \* servers a catalog has been requested from
    fetchAfterClose, \* a fetch was issued after onModuleDestroy completed
    \* RagService: the retrieveRelevantInfo call being served
    rag,             \* its position, its locals and what it returned
    \* the callers of the registry and the servers behind it
    backend,         \* what the servers answer a catalog request with now
                     \* (followed in SpecTools; elsewhere each fetch draws
                     \* its own outcome)
    calls,           \* caller -> its getTools() call: position, result, history
    lookup,          \* the last getToolByName call: name, catalog read, result
    diag,            \* what the last getDiagnostics call returned
    \* the normalizer
    parse,           \* the last parsePostgresResults call: response, outcome
    \* the context builder
    fmt,             \* the last formatRagContext call: records, context
    corpus,          \* what the backends hold for retrieval to find now
    \* ChatService of the MCP client (processChat)
    chats,           \* request -> its processChat call: position, locals, result
    chatHistories,   \* this.chatHistories: session -> its array (0: no entry)
    heap,            \* the history arrays created so far, by their number
    \* ChatService of the RAG API (processQuery)
    pq,              \* the processQuery call being served
    agent            \* AgentService.chatHistory and ChatService.sessions

regVars == <<mcpServers, client, tools, isInitialized, connectionMonitorInterval,
             initPc, attempts, retryDelay, refreshing, destroyPc>>
obsVars == <<jitterPart, waitedBase, connectFetch, contacted, fetchAfterClose>>
chatVars == <<chats, chatHistories, heap>>
callVars == <<backend, calls, lookup, diag, parse, fmt, corpus, chatVars, pq, agent>>
vars == <<regVars, obsVars, rag, callVars>>

(***************************************************************************)
(* Decisions of the code.                                                  *)
(***************************************************************************)
\* an empty catalog taken for a catalog
FetchedAny(res) == res.kind = "catalog"

\* if (tools && tools.length > 0)
FetchedSome(res) == res.kind = "catalog" /\ Len(res.tools) > 0

\* while (attempts < maxAttempts && !this.isInitialized)
ShouldRetry(att, inited) == att < maxAttempts /\ ~inited

\* the backoff with the cap left out
UncappedBackoff(d) == (3 * d) \div 2

\* Math.min(retryDelay * 1.5, 20000)
CappedBackoff(d) ==
    IF 3 * d >= 2 * maxRetryDelay * Scale THEN maxRetryDelay * Scale
    ELSE (3 * d) \div 2

\* retryDelay = Math.min(retryDelay * 1.5, 20000); retryDelay += jitter
NextRetryDelay(d, j) == CappedBackoff(d) + j * Scale

\* if (!this.isInitialized || this.tools.length === 0)
MonitorShouldRefresh(inited, t) == ~inited \/ Len(t) = 0

\* if (this.tools.length === 0)
GetToolsShouldRefresh(t) == Len(t) = 0

\* the error of refreshTools thrown on to its caller
RefreshErrorEscapes == "rethrow"

\* the catch of refreshTools logs the error; an empty catalog is logged too
OnRefreshError == "log"

\* the store with the connected flag left unset
StoreCatalogNoFlag(fetched) == [tools |-> fetched, isInitialized |-> FALSE]

\* the store with the fetched descriptors added to the ones held
StoreCatalogMerged(fetched) == [tools |-> tools \o fetched, isInitialized |-> TRUE]

\* this.tools = tools; this.isInitialized = true;
StoreCatalog(fetched) == [tools |-> fetched, isInitialized |-> TRUE]

\* new MultiServerMCPClient(mcpServers): the client is given every configured
\* server; the enabled flag is only logged
ClientServers(cfg) == DOMAIN cfg

\* client.getTools() asks every server of the client for its catalog
IssueFetch ==
    /\ contacted' = contacted \cup ClientServers(mcpServers)
    /\ fetchAfterClose' = (fetchAfterClose \/ destroyPc = "done")

NoIssue == UNCHANGED <<contacted, fetchAfterClose>>

FetchesInFlight == (IF initPc = "fetch" THEN 1 ELSE 0) + refreshing

(***************************************************************************)
(* Tool names as text: getToolByName compares, prefixes and searches them. *)
(***************************************************************************)
Upper == <<"A","B","C","D","E","F","G","H","I","J","K","L","M",
           "N","O","P","Q","R","S","T","U","V","W","X","Y","Z">>
Lower == <<"a","b","c","d","e","f","g","h","i","j","k","l","m",
           "n","o","p","q","r","s","t","u","v","w","x","y","z">>

\* the characters of the names and fragments the code handles
Chars(s) ==
    CASE s = "list_buckets" -> <<"l","i","s","t","_","b","u","c","k","e","t","s">>
      [] s = "search_objects" ->
            <<"s","e","a","r","c","h","_","o","b","j","e","c","t","s">>
      [] s = "get_object_content" ->
            <<"g","e","t","_","o","b","j","e","c","t","_","c","o","n","t","e","n","t">>
      [] s = "query" -> <<"q","u","e","r","y">>
      [] s = "list_schemas" -> <<"l","i","s","t","_","s","c","h","e","m","a","s">>
      [] s = "describe_table" ->
            <<"d","e","s","c","r","i","b","e","_","t","a","b","l","e">>
      [] s = "mcp__s3__list_buckets" ->
            <<"m","c","p","_","_","s","3","_","_",
              "l","i","s","t","_","b","u","c","k","e","t","s">>
      [] s = "mcp__postgres__query" ->
            <<"m","c","p","_","_","p","o","s","t","g","r","e","s","_","_",
              "q","u","e","r","y">>
      [] s = "Execute_SQL" -> <<"E","x","e","c","u","t","e","_","S","Q","L">>
      [] s = "mcp__s3__" -> <<"m","c","p","_","_","s","3","_","_">>
      [] s = "mcp__postgres__" ->
            <<"m","c","p","_","_","p","o","s","t","g","r","e","s","_","_">>
      [] s = "bucket" -> <<"b","u","c","k","e","t">>
      [] s = "list" -> <<"l","i","s","t">>
      [] s = "sql" -> <<"s","q","l">>
      [] s = "object" -> <<"o","b","j","e","c","t">>
      [] s = "content" -> <<"c","o","n","t","e","n","t">>
      [] s = "listbuckets" -> <<"l","i","s","t","b","u","c","k","e","t","s">>
      [] s = "searchobjects" ->
            <<"s","e","a","r","c","h","o","b","j","e","c","t","s">>
      [] s = "getobjectcontent" ->
            <<"g","e","t","o","b","j","e","c","t","c","o","n","t","e","n","t">>
      [] s = "execute_query" ->
            <<"e","x","e","c","u","t","e","_","q","u","e","r","y">>
      [] s = "listschemas" -> <<"l","i","s","t","s","c","h","e","m","a","s">>
      [] s = "describetable" ->
            <<"d","e","s","c","r","i","b","e","t","a","b","l","e">>
      [] s = "" -> <<>>

\* String.prototype.toLowerCase, on characters
LowerChar(c) ==
    IF \E i \in 1..26 : Upper[i] = c
    THEN Lower[CHOOSE i \in 1..26 : Upper[i] = c]
    ELSE c
ToLowerCase(cs) == [i \in 1..Len(cs) |-> LowerChar(cs[i])]

\* String.prototype.includes, on characters
Includes(cs, sub) ==
    \E i \in 0..(Len(cs) - Len(sub)) :
        \A k \in 1..Len(sub) : cs[i + k] = sub[k]

\* getToolByName found nothing (undefined)
NoTool == "undefined"

\* the names of the catalog t
Names(t) == {t[i] : i \in 1..Len(t)}

\* Array.prototype.find over tool names: the first tool of t that is among
\* the matching ones
FindTool(t, matching) ==
    IF \E i \in 1..Len(t) : t[i] \in matching
    THEN t[CHOOSE i \in 1..Len(t) :
                t[i] \in matching /\ \A k \in 1..(i - 1) : t[k] \notin matching]
    ELSE NoTool

\* t.name.toLowerCase().includes(frag)
NameHas(x, frag) == Includes(ToLowerCase(Chars(x)), Chars(frag))

\* the flexible matching of getToolByName
FlexibleMatch(name, t) ==
    LET n == ToLowerCase(Chars(name))
    IN  IF Includes(n, Chars("bucket"))
        THEN FindTool(t, {x \in Names(t) : NameHas(x, "bucket") \/ NameHas(x, "list")})
        ELSE IF Includes(n, Chars("query"))
        THEN FindTool(t, {x \in Names(t) : NameHas(x, "query") \/ NameHas(x, "sql")})
        ELSE IF Includes(n, Chars("object"))
        THEN FindTool(t, {x \in Names(t) : NameHas(x, "object") \/ NameHas(x, "content")})
        ELSE NoTool

\* the lookup with the flexible matching tried before the names
getToolByNameFlexibleFirst(name, t) ==
    IF name # "" /\ FlexibleMatch(name, t) # NoTool THEN FlexibleMatch(name, t)
    ELSE FindTool(t, {x \in Names(t) :
                        \/ x = name
                        \/ Chars(x) = Chars("mcp__s3__") \o Chars(name)
                        \/ Chars(x) = Chars("mcp__postgres__") \o Chars(name)})

\* McpClientService.getToolByName on the catalog t
getToolByName(name, t) ==
    LET exact == FindTool(t, {x \in Names(t) : x = name})
        prefixed == FindTool(t, {x \in Names(t) :
                        \/ Chars(x) = Chars("mcp__s3__") \o Chars(name)
                        \/ Chars(x) = Chars("mcp__postgres__") \o Chars(name)})
    IN  IF exact # NoTool THEN exact
        ELSE IF prefixed # NoTool THEN prefixed
        ELSE IF name # "" THEN FlexibleMatch(name, t)
        ELSE NoTool

(***************************************************************************)
(* RagService: requests, tool responses, records.                          *)
(***************************************************************************)
Queries == {"installation disk space error", "XYZ-1 login"}

\* a tool invocation rejected (ToolInvocationError)
Throw == [kind |-> "throw"]

\* list_buckets responses, by the bucket list the code extracts from them;
\* "" stands for an entry without a usable name
BucketLists == {<<>>, <<"bucket1">>, <<"bucket1", "bucket2">>, <<"", "bucket2">>}
ListResponses == {Throw} \cup {[kind |-> "buckets", buckets |-> b] : b \in BucketLists}

\* search_objects responses: the matching objects of the bucket; the key ""
\* stands for a hit without a usable key
Obj(k, sz) == [key |-> k, size |-> sz]
ObjectLists ==
    {<<>>, <<Obj("key1", 50)>>, <<Obj("key1", 50), Obj("key2", 0)>>,
     <<Obj("", 7), Obj("key2", 0)>>}
SearchResponses == {Throw} \cup {[kind |-> "objects", objects |-> o] : o \in ObjectLists}

\* get_object_content responses: the content, "" when none
ContentResponses == {Throw} \cup {[kind |-> "content", content |-> c] : c \in {"", "text"}}

\* query tool responses, by the fragments the code tests them for, and the
\* ticket_id of each row ("" for a row without one)
QText(noRes, err, cnt, cnt0, hdr, existsF, rs) ==
    [kind |-> "text", noResults |-> noRes, error |-> err, count |-> cnt,
     countZero |-> cnt0, header |-> hdr, existsF |-> existsF, rows |-> rs]
QEmpty == [kind |-> "empty"]
VCheckResponses ==
    {Throw, QEmpty,
     QText(FALSE, FALSE, TRUE, FALSE, TRUE, FALSE, <<>>),   \* count: 1
     QText(FALSE, FALSE, TRUE, TRUE, TRUE, FALSE, <<>>),    \* count: 0
     QText(FALSE, TRUE, FALSE, FALSE, FALSE, FALSE, <<>>)}  \* Error ...
RowResponses ==
    {Throw, QEmpty,
     QText(TRUE, FALSE, FALSE, FALSE, FALSE, FALSE, <<>>),  \* No results found
     QText(FALSE, TRUE, FALSE, FALSE, FALSE, FALSE, <<>>),  \* Error ...
     QText(FALSE, FALSE, FALSE, FALSE, TRUE, FALSE, <<"KALI-3001">>),
     QText(FALSE, FALSE, FALSE, FALSE, TRUE, FALSE, <<"KALI-3001", "", "KALI-3002">>),
     QText(FALSE, FALSE, FALSE, FALSE, TRUE, FALSE, <<"">>), \* no ticket_id
     \* a row whose text holds the word Error
     QText(FALSE, TRUE, FALSE, FALSE, TRUE, FALSE, <<"KALI-3002">>)}
TableResponses ==
    {Throw, QEmpty,
     QText(FALSE, FALSE, FALSE, FALSE, TRUE, FALSE, <<>>),  \* exists: t
     QText(FALSE, FALSE, FALSE, FALSE, TRUE, TRUE, <<>>)}   \* exists: f
PlainResponses == {Throw, QText(FALSE, FALSE, FALSE, FALSE, TRUE, FALSE, <<>>)}

\* generateEmbedding outcomes
EmbedResponses == {"error", "empty", "vector"}

\* what retrieveRelevantInfo returned
Pending == [kind |-> "pending"]
Bundle(q, comb, s3r, pgr) ==
    [kind |-> "bundle", query |-> q, combinedResults |-> comb,
     s3Results |-> s3r, postgresResults |-> pgr]
Raised == [kind |-> "raised"]

\* no request being served
RagIdle ==
    [pc |-> "idle", query |-> "", results |-> <<>>, buckets |-> <<>>,
     bucketName |-> "", objects |-> <<>>, obj |-> Obj("", 0),
     queryTool |-> NoTool, searchTool |-> NoTool, contentTool |-> NoTool,
     s3Results |-> <<>>, postgresResults |-> <<>>, combinedResults |-> <<>>,
     outcome |-> Pending,
     \* observation of the run
     ran |-> {}, s3Raised |-> FALSE, pgRaised |-> FALSE,
     s3Returned |-> <<>>, pgReturned |-> <<>>, invoked |-> {},
     \* the awaits reached, how the vector phase ended and what it parsed,
     \* the rows of the text response, how the schema fetch ended
     phases |-> {}, vectorEnd |-> "none", vectorRecords |-> <<>>,
     textRows |-> <<>>, schemaFetch |-> "none",
     \* how the bucket listing ended and the buckets it gave, the searches
     \* and the content fetches that settled, in the order they settled
     listEnd |-> "none", listed |-> <<>>, searched |-> <<>>, fetchedHits |-> <<>>,
     \* the tool invocations issued and not settled yet
     outstanding |-> 0]

(***************************************************************************)
(* Callers of the registry.                                                *)
(***************************************************************************)
Callers == 1..MaxCallers

\* a caller that has not called getTools() yet
CallIdle ==
    [pc |-> "idle", emptyAtEntry |-> FALSE, cached |-> <<>>, fetches |-> 0,
     fetched |-> NoFetch, returned |-> <<>>,
     \* the catalog the registry held when the fetch of this call settled
     held |-> <<>>,
     \* the call before this one, and whether the servers' answer changed
     \* since that call (chgPrev) and since this call (chgCur) began
     hasPrev |-> FALSE, prev |-> <<>>, chgPrev |-> FALSE, chgCur |-> FALSE]

\* no getToolByName call yet
NoLookup == [name |-> "", catalog |-> <<>>, result |-> NoTool, nth |-> 0]

\* no getDiagnostics call yet
NoDiag == [called |-> FALSE]

\* the sessions and the processChat requests
Sessions == {"s1", "s2"}
Requests == 1..MaxChats

\* a processChat request not made yet
\* the evidence the backends may hold for a query, as retrieval fuses it
Corpora == {<<>>, <<"doc1">>, <<"doc1", "doc2">>}

\* the evidence the backends hold when the service starts
Indexed == <<"doc1">>

\* no retrieval made
NoBundle == [query |-> <<>>, combinedResults |-> <<>>]

ChatIdle ==
    [pc |-> "idle", sessionId |-> "", chatHistory |-> 0, response |-> "",
     outcome |-> Pending,
     \* how storeInteraction ended; the session was cleared meanwhile
     stored |-> "none", cleared |-> FALSE,
     \* the bundle processChat retrieved, the bundle processMessage put
     \* into the agent's context, how many times retrieveRelevantInfo ran
     \* for the request, the evidence storeInteraction wrote
     ragResults |-> NoBundle, context |-> NoBundle, retrievals |-> 0,
     persisted |-> <<>>]

\* no request made, no session known
ChatsIdle ==
    /\ chats = [c \in Requests |-> ChatIdle]
    /\ chatHistories = [sid \in Sessions |-> 0]
    /\ heap = <<>>

\* no processQuery call yet
QueryIdle ==
    [pc |-> "idle", rows |-> <<>>, ragResult |-> <<>>, ragContext |-> "none",
     toolData |-> "null", trace |-> <<>>, outcome |-> Pending,
     \* the session of the request and the number of the request
     sessionId |-> "", id |-> 0]

\* AgentService and ChatService of the RAG API as constructed: no history,
\* no session
NoAgent ==
    [chatHistory |-> <<>>, sessions |-> {},
     \* observation: every message added to each session, the requests
     \* started, and for each session the requests started when it was
     \* last cleared (-1: never cleared)
     added |-> [sid \in Sessions |-> <<>>], started |-> 0,
     clearedAt |-> [sid \in Sessions |-> -1]]

\* no formatRagContext call yet
NoFormat == [input |-> <<>>, done |-> FALSE, context |-> <<>>]

\* no parsePostgresResults call yet
NoParse == [input |-> [kind |-> "none"], outcome |-> [kind |-> "none"]]

\* the names the services look up
LookupNames ==
    {"list_buckets", "search_objects", "get_object_content", "query",
     "describe_table"}

(***************************************************************************)
(* Initial state: the service as constructed.                              *)
(***************************************************************************)
Init ==
    /\ mcpServers \in Configs
    /\ client = "none"
    /\ tools = <<>>
    /\ isInitialized = FALSE
    /\ connectionMonitorInterval = FALSE
    /\ initPc = "notStarted"
    /\ attempts = 0
    /\ retryDelay = initialRetryDelay * Scale
    /\ refreshing = 0
    /\ destroyPc = "none"
    /\ jitterPart = 0
    /\ waitedBase = 0
    /\ connectFetch = NoFetch
    /\ contacted = {}
    /\ fetchAfterClose = FALSE
    /\ rag = RagIdle
    /\ backend = FetchError
    /\ calls = [c \in Callers |-> CallIdle]
    /\ lookup = NoLookup
    /\ diag = NoDiag
    /\ parse = NoParse
    /\ fmt = NoFormat
    /\ corpus = Indexed
    /\ ChatsIdle
    /\ pq = QueryIdle
    /\ agent = NoAgent

(***************************************************************************)
(* onModuleInit / connectWithRetry                                         *)
(***************************************************************************)
\* top of the while loop of connectWithRetry, and what follows the loop
LoopTop ==
    IF ShouldRetry(attempts, isInitialized)
    THEN \* attempts++; await this.client.getTools()
         /\ attempts' = attempts + 1
         /\ initPc' = "fetch"
         /\ IssueFetch
         /\ UNCHANGED connectionMonitorInterval
    ELSE /\ UNCHANGED attempts
         /\ NoIssue
         /\ IF ~isInitialized
            THEN \* throw; caught and logged by onModuleInit
                 /\ initPc' = "caught"
                 /\ UNCHANGED connectionMonitorInterval
            ELSE \* connectWithRetry resolves; startConnectionMonitoring()
                 /\ initPc' = "done"
                 /\ connectionMonitorInterval' = TRUE

\* onModuleInit up to the first await
OnModuleInit ==
    /\ initPc = "notStarted"
    /\ client' = "open"
    /\ LoopTop
    /\ UNCHANGED <<rag, callVars, mcpServers, tools, isInitialized, retryDelay, refreshing,
                   destroyPc, jitterPart, waitedBase, connectFetch>>

\* the awaited client.getTools() of connectWithRetry settles
ConnectFetchReturn ==
    /\ initPc = "fetch"
    /\ \E res \in FetchOutcomes, j \in JitterSet :
        /\ connectFetch' = res
        /\ IF FetchedSome(res)
           THEN \* store, break, leave the loop
                /\ tools' = StoreCatalog(res.tools).tools
                /\ isInitialized' = StoreCatalog(res.tools).isInitialized
                /\ UNCHANGED <<retryDelay, jitterPart, waitedBase>>
                /\ IF ~isInitialized'
                   THEN /\ initPc' = "caught"
                        /\ UNCHANGED connectionMonitorInterval
                   ELSE /\ initPc' = "done"
                        /\ connectionMonitorInterval' = TRUE
           ELSE /\ UNCHANGED <<tools, isInitialized, connectionMonitorInterval>>
                /\ IF res.kind = "error"
                   THEN /\ retryDelay' = NextRetryDelay(retryDelay, j)
                        /\ jitterPart' = j * Scale
                   ELSE UNCHANGED <<retryDelay, jitterPart>>
                \* await new Promise(resolve => setTimeout(resolve, retryDelay))
                /\ waitedBase' = retryDelay' - jitterPart'
                /\ initPc' = "wait"
    /\ NoIssue
    /\ UNCHANGED <<rag, callVars, mcpServers, client, attempts, refreshing, destroyPc>>

\* the setTimeout of connectWithRetry fires
ConnectWaitDone ==
    /\ initPc = "wait"
    /\ LoopTop
    /\ UNCHANGED <<rag, callVars, mcpServers, client, tools, isInitialized, retryDelay,
                   refreshing, destroyPc, jitterPart, waitedBase, connectFetch>>

(***************************************************************************)
(* refreshTools, getTools, the monitor                                     *)
(***************************************************************************)
\* refreshTools() up to its await
StartRefresh ==
    /\ refreshing' = refreshing + 1
    /\ IssueFetch

\* a caller enters getTools()
GetTools ==
    /\ client # "none"
    /\ refreshing < MaxRefresh
    /\ IF GetToolsShouldRefresh(tools)
       THEN StartRefresh
       ELSE UNCHANGED refreshing /\ NoIssue
    /\ UNCHANGED <<rag, callVars, mcpServers, client, tools, isInitialized,
                   connectionMonitorInterval, initPc, attempts, retryDelay,
                   destroyPc, jitterPart, waitedBase, connectFetch>>

\* refreshTools() after its await: the fetch settled with res
RefreshSettle(res) ==
    /\ refreshing' = refreshing - 1
    /\ IF FetchedSome(res)
       THEN /\ tools' = StoreCatalog(res.tools).tools
            /\ isInitialized' = StoreCatalog(res.tools).isInitialized
       ELSE UNCHANGED <<tools, isInitialized>>

\* the awaited client.getTools() of one refreshTools() settles
RefreshReturn ==
    /\ refreshing > 0
    /\ \E res \in FetchOutcomes : RefreshSettle(res)
    /\ NoIssue
    /\ UNCHANGED <<rag, callVars, mcpServers, client, connectionMonitorInterval, initPc,
                   attempts, retryDelay, destroyPc, jitterPart, waitedBase,
                   connectFetch>>

\* the setInterval callback of startConnectionMonitoring runs
MonitorTick ==
    /\ connectionMonitorInterval
    /\ refreshing < MaxRefresh
    /\ IF MonitorShouldRefresh(isInitialized, tools)
       THEN StartRefresh
       ELSE UNCHANGED refreshing /\ NoIssue
    /\ UNCHANGED <<rag, callVars, mcpServers, client, tools, isInitialized,
                   connectionMonitorInterval, initPc, attempts, retryDelay,
                   destroyPc, jitterPart, waitedBase, connectFetch>>

(***************************************************************************)
(* onModuleDestroy                                                         *)
(***************************************************************************)
\* onModuleDestroy up to its await: clearInterval, then client.close()
OnModuleDestroy ==
    /\ destroyPc = "none"
    /\ initPc # "notStarted"
    /\ connectionMonitorInterval' = FALSE
    /\ destroyPc' = "closing"
    /\ NoIssue
    /\ UNCHANGED <<rag, callVars, mcpServers, client, tools, isInitialized, initPc, attempts,
                   retryDelay, refreshing, jitterPart, waitedBase, connectFetch>>

\* the awaited client.close() settles (an error is caught and logged)
CloseReturn ==
    /\ destroyPc = "closing"
    /\ destroyPc' = "done"
    /\ client' = "closed"
    /\ NoIssue
    /\ UNCHANGED <<rag, callVars, mcpServers, tools, isInitialized, connectionMonitorInterval,
                   initPc, attempts, retryDelay, refreshing, jitterPart,
                   waitedBase, connectFetch>>

(***************************************************************************)
(* RagService.retrieveRelevantInfo, searchS3, searchPostgres.              *)
(* The functions below take the request r (and the catalog t the registry  *)
(* holds) to the request as it stands at its next await or at its return.  *)
(***************************************************************************)
Invoke(r, tool, at) ==
    [r EXCEPT !.pc = at, !.invoked = @ \cup {tool}, !.phases = @ \cup {at},
              !.outstanding = @ + 1]

\* the function going on without the invocation having settled
NotAwaited(r) == r

\* await tool.invoke(...): the function goes on when the invocation settled
Awaited(r) == [r EXCEPT !.outstanding = @ - 1]

\* return { query, combinedResults, s3Results, postgresResults }
Return(r) ==
    [r EXCEPT !.pc = "done",
              !.outcome = Bundle(r.query, r.combinedResults, r.s3Results,
                                 r.postgresResults)]

\* the catch of retrieveRelevantInfo with the error thrown on to the caller
OuterCatchRethrow(r) == [r EXCEPT !.pc = "done", !.outcome = Raised]

\* the catch of retrieveRelevantInfo: an empty bundle for the query
OuterCatch(r) ==
    [r EXCEPT !.pc = "done", !.outcome = Bundle(r.query, <<>>, <<>>, <<>>)]

\* a search call without its own try/catch: the error leaves the branch
BranchErrorEscapes(branch) == "rethrow"

\* the catch around each search call logs the error and goes on
OnBranchError(branch) == "continue"

\* the push with the new results put before the ones held
FusePrepend(list, results) == IF Len(results) > 0 THEN results \o list ELSE list

\* if (results.length > 0) { xResults.push(...results); combinedResults.push(...results) }
Fuse(list, results) == IF Len(results) > 0 THEN list \o results ELSE list

\* searchPostgres settled with res; the rest of retrieveRelevantInfo
PgSettled(r, res) ==
    Return([r EXCEPT !.postgresResults = Fuse(@, res),
                     !.combinedResults = Fuse(@, res),
                     !.pgReturned = res,
                     !.results = <<>>])

\* the catch of searchPostgres; return results
PgCaught(r) ==
    IF OnBranchError("postgres") = "continue"
    THEN PgSettled([r EXCEPT !.pgRaised = TRUE], r.results)
    ELSE OuterCatch([r EXCEPT !.pgRaised = TRUE])

\* vectorEnabledResponse tests
HasVector(resp) ==
    /\ resp.kind = "text"
    /\ ~resp.noResults /\ ~resp.error /\ resp.count /\ ~resp.countZero

PgRecord(id) ==
    [content |-> "ticket",
     source |-> <<"postgres:support_tickets:", id>>,
     metadata |-> [ticketId |-> id, dataSource |-> "postgres",
                   tableName |-> "support_tickets"]]

\* parsePostgresResults: one record for each row with a ticket_id
RECURSIVE RowRecords(_)
RowRecords(rows) ==
    IF rows = <<>> THEN <<>>
    ELSE (IF Head(rows) = "" THEN <<>> ELSE <<PgRecord(Head(rows))>>)
         \o RowRecords(Tail(rows))
parsePostgresResults(resp) ==
    IF resp.kind # "text" \/ ~resp.header THEN <<>> ELSE RowRecords(resp.rows)

\* the parsed records pushed without a searchMethod
TagNone(recs) == recs

\* result.metadata.searchMethod = 'text_search'
TagText(recs) ==
    [i \in 1..Len(recs) |->
        [recs[i] EXCEPT !.metadata = [searchMethod |-> "text_search"] @@ @]]

FallbackRecord ==
    [content |-> "schema",
     source |-> <<"postgres:schema:support_tickets">>,
     metadata |-> [type |-> "schema", table |-> "support_tickets",
                   schema |-> "public", searchMethod |-> "fallback"]]

\* the schema fallback entered whatever the phases found
FallbackAlways(results) == TRUE

\* if (results.length === 0)
FallbackWanted(results) == Len(results) = 0

\* if (results.length === 0) { describe_table ... }
Fallback(r, t) ==
    IF ~FallbackWanted(r.results) THEN PgSettled(r, r.results)
    ELSE IF getToolByName("describe_table", t) # NoTool
    THEN Invoke(r, getToolByName("describe_table", t), "pg_describe")
    ELSE PgSettled([r EXCEPT !.schemaFetch = "noTool"], r.results)

\* start of the text phase: the table check
TextPhase(r) == Invoke(r, r.queryTool, "pg_table")

\* an exception of the vector phase thrown on to the catch of searchPostgres
VectorPhaseFailedEscapes(r) == PgCaught(r)

\* the catches of the vector phase log the error; the text phase follows
VectorPhaseFailed(r) == TextPhase(r)

\* the vector phase going on to the text phase whatever it parsed
VectorPhaseNeverReturns(parsed) == FALSE

\* if (parsed.length > 0) return results
VectorPhaseReturns(parsed) == Len(parsed) > 0

\* searchPostgres up to its first await
PgBegin(r, t) ==
    LET r1 == [r EXCEPT !.ran = @ \cup {"postgres"}, !.results = <<>>,
                        !.queryTool = getToolByName("query", t)]
    IN  IF r1.queryTool = NoTool THEN PgCaught(r1)
        ELSE Invoke(r1, r1.queryTool, "pg_vcheck")

PgVCheckSettled(r, resp) ==
    IF resp.kind = "throw"
    THEN VectorPhaseFailed([r EXCEPT !.vectorEnd = "probeFailed"])
    ELSE IF HasVector(resp)
    THEN [r EXCEPT !.pc = "pg_embed", !.phases = @ \cup {"pg_embed"}]
    ELSE TextPhase([r EXCEPT !.vectorEnd = "noCapability"])

\* generateEmbedding settled; an empty embedding is thrown as an error
PgEmbedSettled(r, e) ==
    IF e = "vector" THEN Invoke(r, r.queryTool, "pg_vquery")
    ELSE VectorPhaseFailed([r EXCEPT !.vectorEnd =
                                IF e = "error" THEN "embedFailed" ELSE "embedEmpty"])

PgVQuerySettled(r, resp) ==
    IF resp.kind = "throw"
    THEN VectorPhaseFailed([r EXCEPT !.vectorEnd = "queryFailed"])
    ELSE IF resp.kind = "text" /\ ~resp.error
    THEN LET parsed == parsePostgresResults(resp)
             r1 == [r EXCEPT !.results = @ \o parsed,
                             !.vectorRecords = parsed,
                             !.vectorEnd = IF Len(parsed) > 0 THEN "records"
                                           ELSE "noRecords"]
         IN  IF VectorPhaseReturns(parsed) THEN PgSettled(r1, r1.results)
             ELSE TextPhase(r1)
    ELSE TextPhase([r EXCEPT !.vectorEnd =
                        IF resp.kind = "text" THEN "queryFailed" ELSE "noRecords"])

PgTableSettled(r, resp, t) ==
    IF resp.kind = "text" /\ ~resp.existsF
    THEN Invoke(r, r.queryTool, "pg_text")
    ELSE Fallback(r, t)

PgTextSettled(r, resp, t) ==
    IF resp.kind = "text" /\ resp.header
    THEN Fallback([r EXCEPT !.results = @ \o TagText(parsePostgresResults(resp)),
                            !.textRows = resp.rows], t)
    ELSE Fallback(r, t)

PgDescribeSettled(r, resp) ==
    IF resp.kind = "throw"
    THEN PgSettled([r EXCEPT !.schemaFetch = "describeFailed"], r.results)
    ELSE Invoke(r, r.queryTool, "pg_sample")

PgSampleSettled(r, resp) ==
    IF resp.kind = "throw"
    THEN PgSettled([r EXCEPT !.schemaFetch = "sampleFailed"], r.results)
    ELSE PgSettled([r EXCEPT !.schemaFetch = "fetched"],
                   r.results \o <<FallbackRecord>>)

\* searchS3 settled with res; the rest of retrieveRelevantInfo
S3Settled(r, res, t) ==
    PgBegin([r EXCEPT !.s3Results = Fuse(@, res),
                      !.combinedResults = Fuse(@, res),
                      !.s3Returned = res,
                      !.results = <<>>], t)

\* searchS3 threw
S3Threw(r, t) ==
    IF OnBranchError("s3") = "continue"
    THEN PgBegin([r EXCEPT !.s3Raised = TRUE, !.results = <<>>], t)
    ELSE OuterCatch([r EXCEPT !.s3Raised = TRUE])

\* top of the bucket loop; an entry without a name is skipped
RECURSIVE NextBucket(_, _)
NextBucket(r, t) ==
    IF r.buckets = <<>> THEN S3Settled(r, r.results, t)
    ELSE IF Head(r.buckets) = ""
    THEN NextBucket([r EXCEPT !.buckets = Tail(r.buckets)], t)
    ELSE Invoke([r EXCEPT !.bucketName = Head(r.buckets),
                          !.buckets = Tail(r.buckets)],
                r.searchTool, "s3_search")

\* top of the object loop; a hit without a key is skipped
RECURSIVE NextObject(_, _)
NextObject(r, t) ==
    IF r.objects = <<>> THEN NextBucket(r, t)
    ELSE IF Head(r.objects).key = ""
    THEN NextObject([r EXCEPT !.objects = Tail(r.objects)], t)
    ELSE Invoke([r EXCEPT !.obj = Head(r.objects), !.objects = Tail(r.objects)],
                r.contentTool, "s3_content")

\* the record built with no size taken from the hit
S3RecordNoSize(bucket, obj, content) ==
    [content |-> content,
     source |-> <<"s3://", bucket, "/", obj.key>>,
     metadata |-> [size |-> 0, bucket |-> bucket, key |-> obj.key]]

\* results.push({ content, source: `s3://${bucketName}/${objKey}`, metadata })
S3Record(bucket, obj, content) ==
    [content |-> content,
     source |-> <<"s3://", bucket, "/", obj.key>>,
     metadata |-> [size |-> obj.size, bucket |-> bucket, key |-> obj.key]]

\* a hit whose fetch failed ending the loop over its bucket's hits
HitSkippedLeavesBucket(r, t) == NextBucket(r, t)

\* catch (error) of the object loop, and if (!content) continue: next hit
HitSkipped(r, t) == NextObject(r, t)

\* catch (error) of the search: next bucket
SearchFailed(r, t) == NextBucket(r, t)

\* the bucket list taken as never empty
NoBucketsNever(buckets) == FALSE

\* if (buckets.length > 0) ... else return results
NoBuckets(buckets) == Len(buckets) = 0

\* searchS3 up to its first await
S3Begin(r, t) ==
    LET r1 == [r EXCEPT !.ran = @ \cup {"s3"}, !.results = <<>>]
        listTool == getToolByName("list_buckets", t)
    IN  IF listTool = NoTool THEN S3Threw([r1 EXCEPT !.listEnd = "noTool"], t)
        ELSE Invoke(r1, listTool, "s3_list")

S3ListSettled(r, resp, t) ==
    IF resp.kind = "throw" THEN S3Threw([r EXCEPT !.listEnd = "throw"], t)
    ELSE IF NoBuckets(resp.buckets)
    THEN S3Settled([r EXCEPT !.listEnd = "buckets"], r.results, t)
    ELSE LET r1 == [r EXCEPT !.buckets = resp.buckets,
                             !.listEnd = "buckets", !.listed = resp.buckets,
                             !.searchTool = getToolByName("search_objects", t),
                             !.contentTool = getToolByName("get_object_content", t)]
         IN  IF r1.searchTool = NoTool \/ r1.contentTool = NoTool
             THEN S3Threw(r1, t)
             ELSE NextBucket(r1, t)

S3SearchSettled(r, resp, t) ==
    IF resp.kind = "throw"
    THEN SearchFailed([r EXCEPT !.searched =
                Append(@, [bucket |-> r.bucketName, failed |-> TRUE,
                           objects |-> <<>>])], t)
    ELSE NextObject([r EXCEPT !.objects = resp.objects,
                              !.searched =
                Append(@, [bucket |-> r.bucketName, failed |-> FALSE,
                           objects |-> resp.objects])], t)

S3ContentSettled(r, resp, t) ==
    LET out == IF resp.kind = "throw" THEN "throw"
               ELSE IF resp.content = "" THEN "empty" ELSE "text"
        r1 == [r EXCEPT !.fetchedHits =
                Append(@, [bucket |-> r.bucketName, obj |-> r.obj, out |-> out])]
    IN  IF out # "text" THEN HitSkipped(r1, t)
        ELSE NextObject([r1 EXCEPT !.results =
                        Append(@, S3Record(r.bucketName, r.obj, resp.content))], t)

\* if (!tools || tools.length === 0) throw new Error('No tools available')
AfterGetTools(r, t) == IF Len(t) = 0 THEN OuterCatch(r) ELSE S3Begin(r, t)

(***************************************************************************)
(* The steps of one retrieveRelevantInfo call.                             *)
(***************************************************************************)
regQuiet == UNCHANGED <<regVars, obsVars, callVars>>

\* retrieveRelevantInfo(q) up to its first await
Retrieve ==
    /\ rag.pc \in {"idle", "done"}
    /\ \E q \in Queries :
        LET r == [RagIdle EXCEPT !.query = q]
        IN  IF GetToolsShouldRefresh(tools)
            THEN /\ StartRefresh
                 /\ rag' = [r EXCEPT !.pc = "r_tools"]
            ELSE /\ UNCHANGED refreshing /\ NoIssue
                 /\ rag' = AfterGetTools(r, tools)
    /\ UNCHANGED <<callVars, mcpServers, client, tools, isInitialized,
                   connectionMonitorInterval, initPc, attempts, retryDelay,
                   destroyPc, jitterPart, waitedBase, connectFetch>>

\* the refresh awaited by getTools() settles
RetrieveToolsReturn ==
    /\ rag.pc = "r_tools"
    /\ refreshing > 0
    /\ \E res \in FetchOutcomes : RefreshSettle(res)
    /\ rag' = AfterGetTools(rag, tools')
    /\ NoIssue
    /\ UNCHANGED <<callVars, mcpServers, client, connectionMonitorInterval, initPc,
                   attempts, retryDelay, destroyPc, jitterPart, waitedBase,
                   connectFetch>>

S3ListReturn ==
    /\ rag.pc = "s3_list"
    /\ \E resp \in ListResponses : rag' = S3ListSettled(Awaited(rag), resp, tools)
    /\ regQuiet

S3SearchReturn ==
    /\ rag.pc = "s3_search"
    /\ \E resp \in SearchResponses : rag' = S3SearchSettled(Awaited(rag), resp, tools)
    /\ regQuiet

S3ContentReturn ==
    /\ rag.pc = "s3_content"
    /\ \E resp \in ContentResponses : rag' = S3ContentSettled(Awaited(rag), resp, tools)
    /\ regQuiet

PgVCheckReturn ==
    /\ rag.pc = "pg_vcheck"
    /\ \E resp \in VCheckResponses : rag' = PgVCheckSettled(Awaited(rag), resp)
    /\ regQuiet

PgEmbedReturn ==
    /\ rag.pc = "pg_embed"
    /\ \E e \in EmbedResponses : rag' = PgEmbedSettled(rag, e)
    /\ regQuiet

PgVQueryReturn ==
    /\ rag.pc = "pg_vquery"
    /\ \E resp \in RowResponses : rag' = PgVQuerySettled(Awaited(rag), resp)
    /\ regQuiet

PgTableReturn ==
    /\ rag.pc = "pg_table"
    /\ \E resp \in TableResponses : rag' = PgTableSettled(Awaited(rag), resp, tools)
    /\ regQuiet

PgTextReturn ==
    /\ rag.pc = "pg_text"
    /\ \E resp \in RowResponses : rag' = PgTextSettled(Awaited(rag), resp, tools)
    /\ regQuiet

PgDescribeReturn ==
    /\ rag.pc = "pg_describe"
    /\ \E resp \in PlainResponses : rag' = PgDescribeSettled(Awaited(rag), resp)
    /\ regQuiet

PgSampleReturn ==
    /\ rag.pc = "pg_sample"
    /\ \E resp \in PlainResponses : rag' = PgSampleSettled(Awaited(rag), resp)
    /\ regQuiet

\* the registry as onModuleInit leaves it: connected on the first attempt, or
\* given up after max-attempts empty catalogs
InitRag ==
    /\ mcpServers \in Configs
    /\ client = "open"
    /\ refreshing = 0
    /\ destroyPc = "none"
    /\ retryDelay = initialRetryDelay * Scale
    /\ jitterPart = 0
    /\ contacted = ClientServers(mcpServers)
    /\ fetchAfterClose = FALSE
    /\ rag = RagIdle
    /\ calls = [c \in Callers |-> CallIdle]
    /\ lookup = NoLookup
    /\ diag = NoDiag
    /\ parse = NoParse
    /\ fmt = NoFormat
    /\ corpus = Indexed
    /\ ChatsIdle
    /\ pq = QueryIdle
    /\ agent = NoAgent
    /\ backend = FetchError
    /\ \/ /\ initPc = "done"
          /\ tools \in RagCatalogs
          /\ isInitialized = TRUE
          /\ connectionMonitorInterval = TRUE
          /\ attempts = 1
          /\ waitedBase = 0
          /\ connectFetch = Fetched(tools)
       \/ /\ initPc = "caught"
          /\ tools = <<>>
          /\ isInitialized = FALSE
          /\ connectionMonitorInterval = FALSE
          /\ attempts = maxAttempts
          /\ waitedBase = initialRetryDelay * Scale
          /\ connectFetch = Fetched(<<>>)

NextRag ==
    \/ Retrieve
    \/ RetrieveToolsReturn
    \/ S3ListReturn
    \/ S3SearchReturn
    \/ S3ContentReturn
    \/ PgVCheckReturn
    \/ PgEmbedReturn
    \/ PgVQueryReturn
    \/ PgTableReturn
    \/ PgTextReturn
    \/ PgDescribeReturn
    \/ PgSampleReturn

SpecRag == InitRag /\ [][NextRag]_vars

Next ==
    \/ OnModuleInit
    \/ ConnectFetchReturn
    \/ ConnectWaitDone
    \/ GetTools
    \/ RefreshReturn
    \/ MonitorTick
    \/ OnModuleDestroy
    \/ CloseReturn

Spec == Init /\ [][Next]_vars

(***************************************************************************)
(* The registry after onModuleInit, its callers and the servers behind it. *)
(* Every catalog fetch resolves with what the servers answer at that       *)
(* moment (backend).                                                       *)
(***************************************************************************)
\* caller c enters getTools(); with a cached catalog it returns at once
CallGetTools(c) ==
    /\ client # "none"
    /\ calls[c].pc \in {"idle", "returned"}
    /\ refreshing < MaxRefresh
    /\ LET k == [calls[c] EXCEPT !.hasPrev = (calls[c].pc = "returned"),
                                 !.prev = calls[c].returned,
                                 !.chgPrev = calls[c].chgCur,
                                 !.chgCur = FALSE,
                                 !.emptyAtEntry = GetToolsShouldRefresh(tools),
                                 !.cached = tools,
                                 !.fetched = NoFetch,
                                 !.held = <<>>]
       IN  IF GetToolsShouldRefresh(tools)
           THEN \* await this.refreshTools()
                /\ StartRefresh
                /\ calls' = [calls EXCEPT ![c] =
                                [k EXCEPT !.pc = "fetching", !.fetches = 1]]
           ELSE \* return this.tools
                /\ UNCHANGED refreshing
                /\ NoIssue
                /\ calls' = [calls EXCEPT ![c] =
                                [k EXCEPT !.pc = "returned", !.fetches = 0,
                                          !.returned = tools]]
    /\ UNCHANGED <<rag, backend, lookup, diag, parse, fmt, corpus, agent, chatVars, pq, mcpServers, client, tools, isInitialized,
                   connectionMonitorInterval, initPc, attempts, retryDelay,
                   destroyPc, jitterPart, waitedBase, connectFetch>>

\* the client.getTools() awaited by the refreshTools() of caller c settles
CallFetchReturn(c) ==
    /\ calls[c].pc = "fetching"
    /\ refreshing > 0
    /\ RefreshSettle(backend)
    /\ calls' = [calls EXCEPT
                    ![c].pc = IF FetchedSome(backend) \/ OnRefreshError = "log"
                              THEN "resuming" ELSE "raised",
                    ![c].fetched = backend,
                    ![c].held = tools]
    /\ NoIssue
    /\ UNCHANGED <<rag, backend, lookup, diag, parse, fmt, corpus, agent, chatVars, pq, mcpServers, client,
                   connectionMonitorInterval, initPc, attempts, retryDelay,
                   destroyPc, jitterPart, waitedBase, connectFetch>>

\* getTools() of caller c resumes after await this.refreshTools():
\* return this.tools
CallResume(c) ==
    /\ calls[c].pc = "resuming"
    /\ calls' = [calls EXCEPT ![c].pc = "returned", ![c].returned = tools]
    /\ UNCHANGED <<regVars, obsVars, rag, backend, lookup, diag, parse, fmt, corpus, agent, chatVars, pq>>

\* the fetch awaited by connectWithRetry settles with the servers' answer
ConnectFetchOfBackend ==
    /\ ConnectFetchReturn
    /\ connectFetch' = backend

\* a server goes away, comes back or changes its tools
BackendChange ==
    /\ backend' \in FetchOutcomes \ {backend}
    /\ calls' = [c \in Callers |->
                    [calls[c] EXCEPT !.chgPrev = TRUE, !.chgCur = TRUE]]
    /\ UNCHANGED <<regVars, obsVars, rag, lookup, diag, parse, fmt, corpus, agent, chatVars, pq>>

\* a service calls getToolByName(name)
LookupTool ==
    /\ \E name \in LookupNames :
        lookup' = [name |-> name, catalog |-> tools,
                   result |-> getToolByName(name, tools),
                   nth |-> 1 - lookup.nth]
    /\ UNCHANGED <<regVars, obsVars, rag, backend, calls, diag, parse, fmt, corpus, agent, chatVars, pq>>

\* the registry as onModuleInit leaves it (connected, or given up), or with
\* connectWithRetry waiting before its last attempt
InitTools ==
    /\ mcpServers \in Configs
    /\ client = "open"
    /\ refreshing = 0
    /\ destroyPc = "none"
    /\ retryDelay = initialRetryDelay * Scale
    /\ jitterPart = 0
    /\ contacted = ClientServers(mcpServers)
    /\ fetchAfterClose = FALSE
    /\ rag = RagIdle
    /\ backend \in FetchOutcomes
    /\ calls = [c \in Callers |-> CallIdle]
    /\ lookup = NoLookup
    /\ diag = NoDiag
    /\ parse = NoParse
    /\ fmt = NoFormat
    /\ corpus = Indexed
    /\ ChatsIdle
    /\ pq = QueryIdle
    /\ agent = NoAgent
    /\ \/ /\ initPc = "done"
          /\ tools \in Catalogs \ {<<>>}
          /\ isInitialized = TRUE
          /\ connectionMonitorInterval = TRUE
          /\ attempts = 1
          /\ waitedBase = 0
          /\ connectFetch = Fetched(tools)
       \/ /\ initPc \in {"caught", "wait"}
          /\ tools = <<>>
          /\ isInitialized = FALSE
          /\ connectionMonitorInterval = FALSE
          /\ attempts = (IF initPc = "wait" THEN maxAttempts - 1 ELSE maxAttempts)
          /\ waitedBase = initialRetryDelay * Scale
          /\ connectFetch = Fetched(<<>>)

NextTools ==
    \/ \E c \in Callers : CallGetTools(c)
    \/ \E c \in Callers : CallFetchReturn(c)
    \/ \E c \in Callers : CallResume(c)
    \/ ConnectWaitDone
    \/ ConnectFetchOfBackend
    \/ MonitorTick
    \/ BackendChange

SpecTools == InitTools /\ [][NextTools]_vars

(***************************************************************************)
(* getToolByName on catalogs of any names.                                 *)
(***************************************************************************)
\* the tool names a server may expose: plain, prefixed by the client with
\* mcp__<server>__, or named differently
ResolveNames ==
    {"list_buckets", "mcp__s3__list_buckets", "list_schemas", "query",
     "mcp__postgres__query", "Execute_SQL", "get_object_content"}

RECURSIVE SeqsUpTo(_, _)
SeqsUpTo(S, n) ==
    IF n = 0 THEN {<<>>}
    ELSE SeqsUpTo(S, n - 1)
         \cup {Append(q, x) : q \in {z \in SeqsUpTo(S, n - 1) : Len(z) = n - 1},
                              x \in S}

ResolveCatalogs == SeqsUpTo(ResolveNames, MaxCatalog)

\* a connected registry holding any catalog
InitResolve ==
    /\ mcpServers \in Configs
    /\ client = "open"
    /\ refreshing = 0
    /\ destroyPc = "none"
    /\ retryDelay = initialRetryDelay * Scale
    /\ jitterPart = 0
    /\ contacted = ClientServers(mcpServers)
    /\ fetchAfterClose = FALSE
    /\ rag = RagIdle
    /\ calls = [c \in Callers |-> CallIdle]
    /\ lookup = NoLookup
    /\ diag = NoDiag
    /\ parse = NoParse
    /\ fmt = NoFormat
    /\ corpus = Indexed
    /\ ChatsIdle
    /\ pq = QueryIdle
    /\ agent = NoAgent
    /\ initPc = "done"
    /\ tools \in ResolveCatalogs \ {<<>>}
    /\ backend = FetchError
    /\ isInitialized = TRUE
    /\ connectionMonitorInterval = TRUE
    /\ attempts = 1
    /\ waitedBase = 0
    /\ connectFetch = Fetched(tools)

NextResolve == LookupTool

SpecResolve == InitResolve /\ [][NextResolve]_vars

(***************************************************************************)
(* McpClientService.hasRequiredTools and getDiagnostics.                   *)
(***************************************************************************)
\* the names a required tool may go by: the name, the name with the client's
\* prefix, the name in one word (and for query: execute_query, sql)
NameVariants(name, prefix, others) ==
    <<Chars(name), Chars(prefix) \o Chars(name)>>
    \o [i \in 1..Len(others) |-> Chars(others[i])]

\* requiredToolSets
requiredToolSets ==
    [listBuckets |-> NameVariants("list_buckets", "mcp__s3__", <<"listbuckets">>),
     searchObjects |->
        NameVariants("search_objects", "mcp__s3__", <<"searchobjects">>),
     getObjectContent |->
        NameVariants("get_object_content", "mcp__s3__", <<"getobjectcontent">>),
     query |-> NameVariants("query", "mcp__postgres__", <<"execute_query", "sql">>),
     listSchemas |->
        NameVariants("list_schemas", "mcp__postgres__", <<"listschemas">>),
     describeTable |->
        NameVariants("describe_table", "mcp__postgres__", <<"describetable">>)]

\* nameVariants.some(variant => availableToolNames.some(name =>
\*     name.includes(variant.toLowerCase())))
VariantPresent(nameVariants, t) ==
    \E v \in 1..Len(nameVariants) :
        \E x \in Names(t) :
            Includes(ToLowerCase(Chars(x)), ToLowerCase(nameVariants[v]))

\* the keys pushed to missingS3Tools and missingPgTools
MissingTools(t) ==
    {key \in DOMAIN requiredToolSets : ~VariantPresent(requiredToolSets[key], t)}

hasRequiredTools(t) == MissingTools(t) = {}

\* the six names getDiagnostics counts and the services resolve
RequiredNames ==
    {"list_buckets", "search_objects", "get_object_content", "query",
     "list_schemas", "describe_table"}

getDiagnostics(t, inited) ==
    [called |-> TRUE,
     status |-> IF inited THEN "connected" ELSE "disconnected",
     totalTools |-> Len(t),
     s3ToolsAvailable |->
        Len(SelectSeq(t, LAMBDA x :
                x \in {"list_buckets", "search_objects", "get_object_content"})),
     pgToolsAvailable |->
        Len(SelectSeq(t, LAMBDA x : x \in {"query", "list_schemas", "describe_table"})),
     hasAllRequiredTools |-> hasRequiredTools(t),
     allToolNames |-> t]

\* the catalogs of the servers: for each required tool none, the tool under
\* its name or the tool under another name
ToolChoices ==
    <<{"list_buckets", "listbuckets"}, {"search_objects", "searchobjects"},
      {"get_object_content", "getobjectcontent"}, {"query", "Execute_SQL"},
      {"list_schemas", "listschemas"}, {"describe_table", "describetable"}>>

RECURSIVE ChosenFrom(_)
ChosenFrom(choices) ==
    IF choices = <<>> THEN {<<>>}
    ELSE {pre \o rest : pre \in {<<>>} \cup {<<x>> : x \in Head(choices)},
                        rest \in ChosenFrom(Tail(choices))}

DiagCatalogs == ChosenFrom(ToolChoices) \ {<<>>}

\* a service or the diagnostics endpoint calls getDiagnostics()
GetDiagnostics ==
    /\ diag' = getDiagnostics(tools, isInitialized)
    /\ UNCHANGED <<regVars, obsVars, rag, backend, calls, lookup, parse, fmt, corpus, agent, chatVars, pq>>

\* getToolByName(name) for one of the six required names
LookupRequired ==
    /\ \E name \in RequiredNames :
        lookup' = [name |-> name, catalog |-> tools,
                   result |-> getToolByName(name, tools), nth |-> 0]
    /\ UNCHANGED <<regVars, obsVars, rag, backend, calls, diag, parse, fmt, corpus, agent, chatVars, pq>>

\* a connected registry holding one of the catalogs
InitDiag ==
    /\ mcpServers = [s \in Servers |-> TRUE]
    /\ client = "open"
    /\ refreshing = 0
    /\ destroyPc = "none"
    /\ retryDelay = initialRetryDelay * Scale
    /\ jitterPart = 0
    /\ contacted = ClientServers(mcpServers)
    /\ fetchAfterClose = FALSE
    /\ rag = RagIdle
    /\ calls = [c \in Callers |-> CallIdle]
    /\ lookup = NoLookup
    /\ diag = NoDiag
    /\ parse = NoParse
    /\ fmt = NoFormat
    /\ corpus = Indexed
    /\ ChatsIdle
    /\ pq = QueryIdle
    /\ agent = NoAgent
    /\ initPc = "done"
    /\ tools \in DiagCatalogs
    /\ backend = FetchError
    /\ isInitialized = TRUE
    /\ connectionMonitorInterval = TRUE
    /\ attempts = 1
    /\ waitedBase = 0
    /\ connectFetch = Fetched(tools)

NextDiag == GetDiagnostics \/ LookupRequired

SpecDiag == InitDiag /\ [][NextDiag]_vars

(***************************************************************************)
(* The normalizer: RagService.parsePostgresResults and tryParseJson.       *)
(* A text is held as the result of the splits the code applies to it: a    *)
(* response as its lines (split on '\n'), a line as its fields (split on   *)
(* ' | '), a field as its parts (split on ': '). The first part is the     *)
(* key; the parts after it, joined again by ': ', are the value, so a      *)
(* value is held as those parts.                                           *)
(***************************************************************************)
\* JavaScript values
JNull == [t |-> "null"]
JUndefined == [t |-> "undefined"]
JStr(str) == [t |-> "string", s |-> str]
JNum(n) == [t |-> "number", n |-> n]
JArr(items) == [t |-> "array", items |-> items]
JObj(entries) == [t |-> "object", entries |-> entries]
Entry(key, val) == [k |-> key, v |-> val]
SyntaxError == [t |-> "SyntaxError"]

\* JSON.parse on the texts of the model
JsonParse(text) ==
    CASE text = <<"{\"name\":\"Ann\"}">> -> JObj(<<Entry("name", JStr("Ann"))>>)
      [] text = <<"{\"name\": \"Ann\"}">> -> JObj(<<Entry("name", JStr("Ann"))>>)
      [] text = <<"42">> -> JNum(42)
      [] text = <<"{\"images\":[null]}">> ->
            JObj(<<Entry("images", JArr(<<JNull>>))>>)
      [] text = <<"{\"priority\":\"high\",\"images\":[{\"s3_key\":\"k1\"}]}">> ->
            JObj(<<Entry("priority", JStr("high")),
                   Entry("images",
                         JArr(<<JObj(<<Entry("s3_key", JStr("k1"))>>)>>))>>)
      [] OTHER -> SyntaxError

\* the repairs of tryParseJson: keys quoted, single quotes doubled, text
\* before the first brace and after the last one cut
RepairJson(text) ==
    CASE text = <<"{name", "'Ann'}">> -> <<"{\"name\": \"Ann\"}">>
      [] text = <<"not json">> -> <<"not json">>

\* !value of a string held as parts
Falsy(text) == text = <<>> \/ text = <<"">>

\* RagService.tryParseJson
tryParseJson(jsonString) ==
    IF Falsy(jsonString) THEN JNull
    ELSE IF JsonParse(jsonString) # SyntaxError THEN JsonParse(jsonString)
    ELSE IF JsonParse(RepairJson(jsonString)) # SyntaxError
    THEN JsonParse(RepairJson(jsonString))
    ELSE [t |-> "string", s |-> jsonString]

\* typeof v === 'object' && v !== null
IsObject(v) == v.t \in {"object", "array"}

\* v[key] of a parsed object, undefined when it has none
Get(v, key) ==
    IF v.t = "object" /\ \E i \in 1..Len(v.entries) : v.entries[i].k = key
    THEN v.entries[CHOOSE i \in 1..Len(v.entries) : v.entries[i].k = key].v
    ELSE JUndefined

\* m[key] = val
Put(m, key, val) ==
    [x \in DOMAIN m \cup {key} |-> IF x = key THEN val ELSE m[x]]

\* resultObj: the fields of a line with a key, a later one replacing an
\* earlier one of the same key
RECURSIVE RowObject(_)
RowObject(fields) ==
    IF fields = <<>> THEN <<>>
    ELSE LET field == fields[Len(fields)]
             rest == RowObject(SubSeq(fields, 1, Len(fields) - 1))
         IN  IF field = <<>> \/ Head(field) = "" THEN rest
             ELSE Put(rest, Head(field), Tail(field))

\* resultObj[key], empty when the row has no such field
Field(obj, key) == IF key \in DOMAIN obj THEN obj[key] ELSE <<>>

\* Object.keys(resultObj).filter(k => k !== 'ticket_id')
RECURSIVE RecordFields(_, _)
RecordFields(fields, seen) ==
    IF fields = <<>> THEN <<>>
    ELSE LET field == Head(fields)
             key == IF field = <<>> THEN "" ELSE Head(field)
         IN  IF key \in seen \cup {"", "ticket_id"}
             THEN RecordFields(Tail(fields), seen)
             ELSE <<key>> \o RecordFields(Tail(fields), seen \cup {key})

\* the customer and the resolution field: the parsed object, or { raw }
JsonField(st, obj, name) ==
    IF Falsy(Field(obj, name)) THEN st
    ELSE LET data == tryParseJson(Field(obj, name))
         IN  IF IsObject(data)
             THEN [content |-> Append(st.content, <<name, "details">>),
                   metadata |-> Put(st.metadata, name, data)]
             ELSE [content |-> Append(st.content, <<name, "raw">>),
                   metadata |-> Put(st.metadata, name,
                                    [raw |-> Field(obj, name)])]

\* images.map(...): the image list of the record
MapImages(images) ==
    [i \in 1..Len(images.items) |->
        [index |-> i,
         description |->
            IF Get(images.items[i], "description") = JUndefined
            THEN JStr("No description")
            ELSE Get(images.items[i], "description"),
         s3_key |-> Get(images.items[i], "s3_key")]]

\* for (const [key, value] of Object.entries(metadataData)) metadata[key] = value
RECURSIVE Spread(_, _)
Spread(m, entries) ==
    IF entries = <<>> THEN m
    ELSE IF Head(entries).k = "images" THEN Spread(m, Tail(entries))
    ELSE Spread(Put(m, Head(entries).k, Head(entries).v), Tail(entries))

\* the metadata field: parsed, its keys go into the record's metadata (the
\* images as a list); a null image raises a TypeError, caught with the rest
\* of the try block
MetadataField(st, obj) ==
    IF Falsy(Field(obj, "metadata")) THEN st
    ELSE LET data == tryParseJson(Field(obj, "metadata"))
             images == Get(data, "images")
             st1 == [st EXCEPT !.content = Append(@, <<"metadata", "details">>)]
         IN  IF ~IsObject(data) THEN st
             ELSE IF images.t # "array"
             THEN [st1 EXCEPT !.metadata = Spread(@, data.entries)]
             ELSE IF \E i \in 1..Len(images.items) :
                        images.items[i].t \in {"null", "undefined"}
             THEN [st1 EXCEPT !.content = Append(@, <<"images", "count">>)]
             ELSE [content |-> st1.content \o <<<<"images", "count">>,
                                                <<"images", "list">>>>,
                   metadata |-> Spread(Put(st1.metadata, "images",
                                           MapImages(images)),
                                       data.entries)]

\* a row taken for a record whether or not it has a ticket_id
HasTicketIdAlways(obj) == TRUE

\* if (!resultObj.ticket_id) continue
HasTicketId(obj) == ~Falsy(Field(obj, "ticket_id"))

\* the records of one line: none for a blank line or a row with no ticket_id
ParseLine(fields) ==
    LET obj == RowObject(fields)
        st0 == [content |->
                    SelectSeq(<<<<"subject", "line">>, <<"description", "line">>,
                                <<"similarity", "line">>>>,
                              LAMBDA c : ~Falsy(Field(obj, c[1]))),
                metadata |->
                    [ticketId |-> Field(obj, "ticket_id"),
                     dataSource |-> "postgres",
                     tableName |-> "support_tickets",
                     similarity |-> IF Falsy(Field(obj, "similarity")) THEN JNull
                                    ELSE Field(obj, "similarity"),
                     recordFields |-> RecordFields(fields, {})]]
        st == MetadataField(JsonField(JsonField(st0, obj, "customer"),
                                      obj, "resolution"), obj)
    IN  IF fields = <<>> \/ ~HasTicketId(obj) THEN <<>>
        ELSE <<[content |-> st.content,
                source |-> <<"postgres:support_tickets:">>
                              \o Field(obj, "ticket_id"),
                metadata |-> st.metadata]>>

RECURSIVE ParseLines(_)
ParseLines(lines) ==
    IF lines = <<>> THEN <<>>
    ELSE ParseLine(Head(lines)) \o ParseLines(Tail(lines))

\* the first two lines of a text block
HeaderLine == <<<<"Results:">>>>
SeparatorLine == <<<<"--------">>>>

\* what parsePostgresResults returned, or the error it raised
Records(recs) == [kind |-> "list", records |-> recs]
TypeError == [kind |-> "TypeError"]

\* RagService.parsePostgresResults on a raw response: a string (by its
\* lines), an array (by its items), an object or null
parseRawResponse(queryResponse) ==
    CASE queryResponse.kind = "null" -> Records(<<>>)
      [] queryResponse.kind = "object" -> TypeError
      [] queryResponse.kind = "array" ->
            IF \E i \in 1..Len(queryResponse.items) :
                    queryResponse.items[i] = "Results:"
            THEN TypeError
            ELSE Records(<<>>)
      [] queryResponse.kind = "string" ->
            IF queryResponse.lines = <<<<>>>>
               \/ ~\E i \in 1..Len(queryResponse.lines) :
                        queryResponse.lines[i] = HeaderLine
            THEN Records(<<>>)
            ELSE Records(ParseLines(SubSeq(queryResponse.lines, 3,
                                           Len(queryResponse.lines))))

\* the responses given to the normalizer
TicketIdFields ==
    {<<>>, <<<<"ticket_id", "KALI-3001">>>>, <<<<"ticket_id", "KALI-3002">>>>}

JsonTexts ==
    {<<"{\"name\":\"Ann\"}">>, <<"{name", "'Ann'}">>, <<"not json">>, <<"42">>,
     <<"{\"images\":[null]}">>,
     <<"{\"priority\":\"high\",\"images\":[{\"s3_key\":\"k1\"}]}">>}

JsonFields ==
    {<<>>}
    \cup {<<<<"metadata">> \o text>> : text \in JsonTexts \ {<<"{name", "'Ann'}">>}}
    \cup {<<<<"customer">> \o text>> :
            text \in {<<"{\"name\":\"Ann\"}">>, <<"{name", "'Ann'}">>,
                      <<"not json">>, <<"42">>}}
    \cup {<<<<"resolution">> \o text>> :
            text \in {<<"{name", "'Ann'}">>, <<"not json">>}}

\* a blank line, a line with no field, a row with an empty ticket_id, and the
\* rows with or without a ticket_id, a subject and one JSON-like field
DataLines ==
    {<<>>, <<<<"(1 row)">>>>, <<<<"ticket_id", "">>, <<"subject", "Disk full">>>>}
    \cup {id \o <<<<"", "x">>, <<"subject", "Disk full">>>> \o json :
            id \in TicketIdFields, json \in JsonFields}

TextBlocks ==
    {[kind |-> "string", lines |-> pre \o rows] :
        pre \in {<<HeaderLine, SeparatorLine>>, <<HeaderLine>>, <<>>},
        rows \in SeqsUpTo(DataLines, MaxRows)}

RawResponses ==
    (TextBlocks \ {[kind |-> "string", lines |-> <<>>]})
    \cup {[kind |-> "string", lines |-> <<<<>>>>],
          [kind |-> "null"], [kind |-> "object"],
          [kind |-> "array", items |-> <<"ticket_id: KALI-3001">>],
          [kind |-> "array",
           items |-> <<"Results:", "--------", "ticket_id: KALI-3001">>]}

\* parsePostgresResults(response) called and settled
Normalize ==
    /\ parse.outcome.kind = "pending"
    /\ parse' = [parse EXCEPT !.outcome = parseRawResponse(parse.input)]
    /\ UNCHANGED <<regVars, obsVars, rag, backend, calls, lookup, diag, fmt, corpus, agent, chatVars, pq>>

\* a connected registry and a response about to be normalized
InitParse ==
    /\ mcpServers = [s \in Servers |-> TRUE]
    /\ client = "open"
    /\ refreshing = 0
    /\ destroyPc = "none"
    /\ retryDelay = initialRetryDelay * Scale
    /\ jitterPart = 0
    /\ contacted = ClientServers(mcpServers)
    /\ fetchAfterClose = FALSE
    /\ rag = RagIdle
    /\ calls = [c \in Callers |-> CallIdle]
    /\ lookup = NoLookup
    /\ diag = NoDiag
    /\ parse \in {[input |-> resp, outcome |-> [kind |-> "pending"]] :
                    resp \in RawResponses}
    /\ fmt = NoFormat
    /\ corpus = Indexed
    /\ ChatsIdle
    /\ pq = QueryIdle
    /\ agent = NoAgent
    /\ initPc = "done"
    /\ tools = S3Catalog \o PgCatalog
    /\ backend = FetchError
    /\ isInitialized = TRUE
    /\ connectionMonitorInterval = TRUE
    /\ attempts = 1
    /\ waitedBase = 0
    /\ connectFetch = Fetched(tools)

NextParse == Normalize

SpecParse == InitParse /\ [][NextParse]_vars

(***************************************************************************)
(* RagService.formatRagContext.  The context is held as the sequence of    *)
(* the lines appended to it; '' is the empty sequence.  A record's content *)
(* and source are taken whole.                                             *)
(***************************************************************************)
\* metadata.images as parsePostgresResults stores it: one entry per image,
\* s3_key "" when the image has none
WithImages(rec, images) ==
    [rec EXCEPT !.metadata = [images |-> images] @@ @]

\* the records retrieveRelevantInfo can put in combinedResults
FormatRecords ==
    {S3Record("bucket1", Obj("key1", 50), "text"),
     PgRecord("KALI-3001"),
     TagText(<<PgRecord("KALI-3002")>>)[1],
     WithImages(PgRecord("KALI-3001"), <<[s3_key |-> "img1.png"], [s3_key |-> ""]>>),
     WithImages(PgRecord("KALI-3002"), <<>>),
     FallbackRecord}

\* result.source.startsWith('s3://'), result.source.includes('postgres:')
IsS3Source(source) == source[1] = "s3://"
IsPostgresSource(source) ==
    source[1] \in {"postgres:support_tickets:", "postgres:schema:support_tickets"}

\* the keys Object.entries(result.metadata) gives for the records above, in
\* insertion order, whose values are no objects
PlainKeys ==
    <<"ticketId", "dataSource", "tableName", "searchMethod", "type", "table",
      "schema">>

\* the lines of the metadata block of one record
MetadataLines(result) ==
    LET md == result.metadata
        has(k) == k \in DOMAIN md
    IN  IF IsS3Source(result.source)
        THEN <<[kind |-> "type", text |-> "S3 Object"]>>
             \o (IF has("bucket") /\ md.bucket # ""
                 THEN <<[kind |-> "meta", key |-> "Bucket", value |-> md.bucket]>>
                 ELSE <<>>)
             \o (IF has("key") /\ md.key # ""
                 THEN <<[kind |-> "meta", key |-> "Key", value |-> md.key]>>
                 ELSE <<>>)
             \o (IF has("contentType")
                 THEN <<[kind |-> "meta", key |-> "Content Type",
                         value |-> md.contentType]>>
                 ELSE <<>>)
        ELSE IF IsPostgresSource(result.source) /\ has("images")
        THEN LET withKey == SelectSeq(md.images, LAMBDA img : img.s3_key # "")
             IN  <<[kind |-> "type", text |-> "Database Record with Images"],
                   [kind |-> "imageCount", n |-> Len(md.images)],
                   [kind |-> "retrievalHint"]>>
                 \o [i \in 1..Len(withKey) |->
                       [kind |-> "imageTool", key |-> withKey[i].s3_key]]
        ELSE LET keys == SelectSeq(PlainKeys,
                                   LAMBDA k : has(k) /\ md[k] # "")
             IN  [i \in 1..Len(keys) |->
                    [kind |-> "meta", key |-> keys[i], value |-> md[keys[i]]]]

\* the number of a section counted from zero
SectionNumberFromZero(i) == i

\* `#### Source ${i + 1}: ...`
SectionNumber(i) == i + 1

\* the lines one pass of the loop appends for results[i]
Section(results, i) ==
    LET result == results[i + 1]
    IN  <<[kind |-> "heading", n |-> SectionNumber(i), source |-> result.source],
          [kind |-> "content", text |-> result.content]>>
        \o (IF DOMAIN result.metadata # {}
            THEN <<[kind |-> "metaTitle"]>> \o MetadataLines(result)
                 \o <<[kind |-> "blank"]>>
            ELSE <<>>)

\* for (let i = 0; i < results.length; i++)
RECURSIVE Sections(_, _)
Sections(results, i) ==
    IF i >= Len(results) THEN <<>>
    ELSE Section(results, i) \o Sections(results, i + 1)

formatRagContext(results) ==
    IF Len(results) = 0 THEN <<>>
    ELSE <<[kind |-> "title"]>> \o Sections(results, 0) \o <<[kind |-> "closing"]>>

\* formatRagContext(results) called and returned
Format ==
    /\ ~fmt.done
    /\ fmt' = [fmt EXCEPT !.done = TRUE, !.context = formatRagContext(fmt.input)]
    /\ UNCHANGED <<regVars, obsVars, rag, backend, calls, lookup, diag, parse, corpus, chatVars, pq, agent>>

\* a connected registry and a fused list about to be formatted
InitFormat ==
    /\ mcpServers = [s \in Servers |-> TRUE]
    /\ client = "open"
    /\ refreshing = 0
    /\ destroyPc = "none"
    /\ retryDelay = initialRetryDelay * Scale
    /\ jitterPart = 0
    /\ contacted = ClientServers(mcpServers)
    /\ fetchAfterClose = FALSE
    /\ rag = RagIdle
    /\ calls = [c \in Callers |-> CallIdle]
    /\ lookup = NoLookup
    /\ diag = NoDiag
    /\ parse = NoParse
    /\ fmt \in {[NoFormat EXCEPT !.input = recs] :
                  recs \in SeqsUpTo(FormatRecords, MaxRecords)}
    /\ corpus = Indexed
    /\ ChatsIdle
    /\ pq = QueryIdle
    /\ agent = NoAgent
    /\ initPc = "done"
    /\ tools = S3Catalog \o PgCatalog
    /\ backend = FetchError
    /\ isInitialized = TRUE
    /\ connectionMonitorInterval = TRUE
    /\ attempts = 1
    /\ waitedBase = 0
    /\ connectFetch = Fetched(tools)

NextFormat == Format

SpecFormat == InitFormat /\ [][NextFormat]_vars

(***************************************************************************)
(* ChatService.processChat (MCP client) with ChatStorageService.           *)
(***************************************************************************)
\* the messages of request c
Human(c) == <<"human", c>>
AI(c) == <<"ai", c>>

\* what processChat returned
Response(text) == [kind |-> "response", response |-> text]

\* ChatStorageService.storeInteraction: false when storage is disabled or
\* the write fails, true otherwise
storeInteraction(storageEnabled, write) ==
    IF ~storageEnabled THEN "false"
    ELSE IF write = "ok" THEN "true" ELSE "false"

\* how the awaited storeInteraction can end for processChat: as
\* ChatStorageService ends it, or rejected
StoreOutcomes ==
    {storeInteraction(en, w) : en \in BOOLEAN, w \in {"ok", "EACCES"}}
    \cup {"throw"}

\* a rejected storeInteraction thrown on to the catch of processChat
StoreErrorEscapes(c) == "rethrow"

\* the try/catch around storeInteraction logs the error and goes on
OnStoreError(c) == "continue"

\* processChat(sessionId, message) up to its first await
ProcessChat(c) ==
    /\ chats[c].pc = "idle"
    /\ \E sid \in Sessions :
        LET fresh == chatHistories[sid] = 0
            arr == IF fresh THEN Len(heap) + 1 ELSE chatHistories[sid]
            heap1 == IF fresh THEN Append(heap, <<>>) ELSE heap
        IN  /\ chatHistories' = [chatHistories EXCEPT ![sid] = arr]
            /\ heap' = [heap1 EXCEPT ![arr] = Append(@, Human(c))]
            /\ chats' = [chats EXCEPT ![c] =
                            [ChatIdle EXCEPT !.pc = "rag", !.sessionId = sid,
                                             !.chatHistory = arr]]
    /\ UNCHANGED <<regVars, obsVars, rag, backend, calls, lookup, diag, parse, fmt, corpus, agent, pq>>

\* RagService.retrieveRelevantInfo(query), as far as its caller sees: the
\* bundle for the query, fused from what the backends hold when it runs
retrieveRelevantInfo(query, held) == [query |-> query, combinedResults |-> held]

\* the last HumanMessage of the history processMessage is given
RECURSIVE LastHuman(_)
LastHuman(h) ==
    IF h = <<>> THEN <<>>
    ELSE IF h[Len(h)][1] = "human" THEN h[Len(h)]
    ELSE LastHuman(SubSeq(h, 1, Len(h) - 1))

\* processChat's retrieveRelevantInfo(message) settled (it returns a bundle
\* whatever happens); processMessage is called and awaits its own
\* retrieveRelevantInfo for the last human message of the history
ChatRagReturn(c) ==
    /\ chats[c].pc = "rag"
    /\ chats' = [chats EXCEPT
                    ![c].pc = "agentRag",
                    ![c].ragResults = retrieveRelevantInfo(Human(c), corpus),
                    ![c].retrievals = @ + 1]
    /\ UNCHANGED <<regVars, obsVars, rag, backend, calls, lookup, diag, parse, fmt, corpus, agent,
                   chatHistories, heap, pq>>

\* the retrieveRelevantInfo of processMessage settled: its combinedResults
\* are formatted into the system message and the agent is invoked
ChatAgentRagReturn(c) ==
    /\ chats[c].pc = "agentRag"
    /\ chats' = [chats EXCEPT
                    ![c].pc = "agent",
                    ![c].context =
                        retrieveRelevantInfo(LastHuman(heap[chats[c].chatHistory]),
                                             corpus),
                    ![c].retrievals = @ + 1]
    /\ UNCHANGED <<regVars, obsVars, rag, backend, calls, lookup, diag, parse, fmt, corpus, agent,
                   chatHistories, heap, pq>>

\* reactAgentService.processMessage settled
ChatAgentReturn(c) ==
    /\ chats[c].pc = "agent"
    /\ \/ /\ chats' = [chats EXCEPT ![c].pc = "done", ![c].outcome = Raised]
          /\ UNCHANGED heap
       \/ /\ heap' = [heap EXCEPT ![chats[c].chatHistory] = Append(@, AI(c))]
          /\ chats' = [chats EXCEPT ![c].pc = "store", ![c].response = "answer"]
    /\ UNCHANGED <<regVars, obsVars, rag, backend, calls, lookup, diag, parse, fmt, corpus, agent,
                   chatHistories, pq>>

\* storeInteraction settled; return response
ChatStoreReturn(c) ==
    /\ chats[c].pc = "store"
    /\ \E res \in StoreOutcomes :
        chats' = [chats EXCEPT
            ![c].pc = "done",
            ![c].stored = res,
            ![c].persisted = IF res = "true"
                             THEN chats[c].ragResults.combinedResults ELSE @,
            ![c].outcome = IF res = "throw" /\ OnStoreError(c) = "rethrow"
                           THEN Raised
                           ELSE Response(chats[c].response)]
    /\ UNCHANGED <<regVars, obsVars, rag, backend, calls, lookup, diag, parse, fmt, corpus, agent,
                   chatHistories, heap, pq>>

\* clearChatHistory(sessionId)
ClearChatHistory(sid) ==
    /\ chatHistories[sid] # 0
    /\ chatHistories' = [chatHistories EXCEPT ![sid] = 0]
    /\ chats' = [c \in Requests |->
                    IF chats[c].sessionId = sid
                    THEN [chats[c] EXCEPT !.cleared = TRUE]
                    ELSE chats[c]]
    /\ UNCHANGED <<regVars, obsVars, rag, backend, calls, lookup, diag, parse, fmt, corpus, agent, heap, pq>>

\* a connected registry and a chat service with no session
InitChat ==
    /\ mcpServers = [s \in Servers |-> TRUE]
    /\ client = "open"
    /\ refreshing = 0
    /\ destroyPc = "none"
    /\ retryDelay = initialRetryDelay * Scale
    /\ jitterPart = 0
    /\ contacted = ClientServers(mcpServers)
    /\ fetchAfterClose = FALSE
    /\ rag = RagIdle
    /\ calls = [c \in Callers |-> CallIdle]
    /\ lookup = NoLookup
    /\ diag = NoDiag
    /\ parse = NoParse
    /\ fmt = NoFormat
    /\ corpus = Indexed
    /\ ChatsIdle
    /\ pq = QueryIdle
    /\ agent = NoAgent
    /\ initPc = "done"
    /\ tools = S3Catalog \o PgCatalog
    /\ backend = FetchError
    /\ isInitialized = TRUE
    /\ connectionMonitorInterval = TRUE
    /\ attempts = 1
    /\ waitedBase = 0
    /\ connectFetch = Fetched(tools)

NextChat ==
    \/ \E c \in Requests : ProcessChat(c)
    \/ \E c \in Requests : ChatRagReturn(c)
    \/ \E c \in Requests : ChatAgentRagReturn(c)
    \/ \E c \in Requests : ChatAgentReturn(c)
    \/ \E c \in Requests : ChatStoreReturn(c)
    \/ \E sid \in Sessions : ClearChatHistory(sid)

SpecChat == InitChat /\ [][NextChat]_vars

\* the backends' contents change: documents are indexed or removed
CorpusChange ==
    /\ \E held \in Corpora \ {corpus} : corpus' = held
    /\ UNCHANGED <<regVars, obsVars, rag, backend, calls, lookup, diag, parse, fmt, chatVars, pq, agent>>

NextEvidence ==
    \/ NextChat
    \/ CorpusChange

\* the chat service over backends whose contents change
SpecEvidence == InitChat /\ [][NextEvidence]_vars

(***************************************************************************)
(* AgentService (RAG API): the chat history of each session.               *)
(* chatHistory is the Map as a function from the session ids it holds.     *)
(***************************************************************************)
\* the oldest messages kept and the new one dropped
KeepOldest(history) ==
    IF Len(history) > chatHistoryLimit
    THEN SubSeq(history, 1, chatHistoryLimit) ELSE history

\* if (history.length > this.configService.chatHistoryLimit) history.shift()
ShiftOver(history) ==
    IF Len(history) > chatHistoryLimit THEN Tail(history) ELSE history

addToHistory(h, sessionId, role, content) ==
    LET h1 == IF sessionId \in DOMAIN h THEN h ELSE h @@ (sessionId :> <<>>)
    IN  [h1 EXCEPT ![sessionId] =
            ShiftOver(Append(@, [role |-> role, content |-> content]))]

\* return this.chatHistory.get(sessionId) || []
getSessionHistory(h, sessionId) ==
    IF sessionId \in DOMAIN h THEN h[sessionId] ELSE <<>>

\* this.chatHistory.delete(sessionId)
clearSessionHistory(h, sessionId) ==
    [sid \in DOMAIN h \ {sessionId} |-> h[sid]]

\* addToHistory(sessionId, role, content) called; the content of a message
\* is its session and its number among the messages added to the session
AddToHistory ==
    /\ \E sid \in Sessions, role \in {"user", "assistant"} :
        /\ \A other \in Sessions \ {sid} :
              Len(agent.added[sid]) + Len(agent.added[other]) < MaxAdds
        /\ LET content == <<sid, Len(agent.added[sid]) + 1>>
           IN  agent' = [agent EXCEPT
                  !.chatHistory = addToHistory(@, sid, role, content),
                  !.added[sid] = Append(@, [role |-> role, content |-> content])]
    /\ UNCHANGED <<regVars, obsVars, rag, backend, calls, lookup, diag, parse, fmt, corpus,
                   chatVars, pq>>

InitHistory == InitChat

NextHistory == AddToHistory

SpecHistory == InitHistory /\ [][NextHistory]_vars

(***************************************************************************)
(* ChatService.processQuery (RAG API) with RagService.search,              *)
(* formatRagContext, ToolAgentService.executeTools and                     *)
(* AgentService.generateResponse.                                          *)
(***************************************************************************)
\* the rows of vector_table, by their metadata column (an object, a JSON
\* text, a text that is no JSON, NULL) and their resolution column
FoundRows ==
    {[metadata |-> m, resolution |-> r] :
        m \in {"object", "json", "notJson", "null"}, r \in {"object", "null"}}

\* result.rows.map(...) of search: row.resolution.solution of a NULL
\* resolution and JSON.parse of a text that is no JSON raise, and the catch
\* of search returns no result
ragResults(rows) ==
    IF \E i \in 1..Len(rows) :
            rows[i].resolution = "null" \/ rows[i].metadata = "notJson"
    THEN <<>>
    ELSE [i \in 1..Len(rows) |->
            [data |-> IF rows[i].metadata = "null" THEN "null" ELSE "object"]]

\* RagService.formatRagContext: '' for no result; m.data.images of a null
\* data raises
formatApiRagContext(ragResult) ==
    IF Len(ragResult) = 0 THEN ""
    ELSE IF \E i \in 1..Len(ragResult) : ragResult[i].data = "null"
    THEN "TypeError"
    ELSE "context"

\* the tool agent called whatever the context is
ToolsWantedAlways(ragContext) == TRUE

\* if (ragContext)
ToolsWanted(ragContext) == ragContext # ""

\* the catch of processQuery: the apology
QueryCaught(q) ==
    [q EXCEPT !.pc = "done",
              !.outcome = Response("Sorry, I encountered an error")]

\* search settled with ragData: formatRagContext, then executeTools or
\* generateResponse is called
SearchSettled(q, ragResult) ==
    LET ctx == formatApiRagContext(ragResult)
        q1 == [q EXCEPT !.ragResult = ragResult,
                        !.trace = Append(@, "search")]
    IN  IF ctx = "TypeError" THEN QueryCaught(q1)
        ELSE IF ToolsWanted(ctx)
        THEN [q1 EXCEPT !.pc = "tools", !.ragContext = ctx,
                        !.trace = Append(@, "tools")]
        ELSE [q1 EXCEPT !.pc = "generate", !.ragContext = ctx,
                        !.trace = Append(@, "generate")]

queryQuiet ==
    UNCHANGED <<regVars, obsVars, rag, backend, calls, lookup, diag, parse, fmt, corpus, chatVars>>

\* processQuery(requestDto) up to the first await of search
ProcessQuery ==
    /\ pq.pc \in {"idle", "done"}
    /\ agent.started < MaxQueries
    /\ \E sid \in Sessions :
        /\ pq' = [QueryIdle EXCEPT !.pc = "embed", !.sessionId = sid,
                                   !.id = agent.started + 1]
        /\ agent' = [agent EXCEPT !.sessions = @ \cup {sid},
                                  !.started = @ + 1]
    /\ queryQuiet

\* openaiService.generateEmbedding settled
QueryEmbedReturn ==
    /\ pq.pc = "embed"
    /\ \/ pq' = [pq EXCEPT !.pc = "db"]
       \/ pq' = SearchSettled(pq, <<>>)
    /\ UNCHANGED agent
    /\ queryQuiet

\* databaseService.query settled
QueryDbReturn ==
    /\ pq.pc = "db"
    /\ \/ pq' = SearchSettled(pq, <<>>)
       \/ \E rows \in SeqsUpTo(FoundRows, MaxFound) :
            pq' = SearchSettled([pq EXCEPT !.rows = rows], ragResults(rows))
    /\ UNCHANGED agent
    /\ queryQuiet

\* executeTools settled: it resolves with a text whatever happens
QueryToolsReturn ==
    /\ pq.pc = "tools"
    /\ \E data \in {"results", "Error executing tools"} :
        pq' = [pq EXCEPT !.pc = "generate", !.toolData = data,
                         !.trace = Append(@, "generate")]
    /\ UNCHANGED agent
    /\ queryQuiet

\* the completion settled in generateResponse: the two messages of the
\* request are added to the history and the reply is returned; or the catch
\* of generateResponse returns its own apology
QueryGenerateReturn ==
    /\ pq.pc = "generate"
    /\ \/ /\ pq' = [pq EXCEPT !.pc = "done", !.outcome = Response("reply")]
          /\ LET user == [role |-> "user", content |-> <<"query", pq.id>>]
                 assistant == [role |-> "assistant", content |-> <<"reply", pq.id>>]
                 h1 == addToHistory(agent.chatHistory, pq.sessionId, user.role,
                                    user.content)
             IN  agent' = [agent EXCEPT
                    !.chatHistory = addToHistory(h1, pq.sessionId, assistant.role,
                                                 assistant.content),
                    !.added[pq.sessionId] = @ \o <<user, assistant>>]
       \/ /\ pq' = [pq EXCEPT !.pc = "done",
                      !.outcome = Response("Sorry, I encountered an error while generating")]
          /\ UNCHANGED agent
    /\ queryQuiet

\* clearSession(sessionId): clearSessionHistory and sessions.delete
ClearSession ==
    /\ \E sid \in Sessions :
        agent' = [agent EXCEPT
            !.chatHistory = clearSessionHistory(@, sid),
            !.sessions = @ \ {sid},
            !.clearedAt[sid] = agent.started]
    /\ UNCHANGED pq
    /\ queryQuiet

InitQuery == InitChat

NextQuery ==
    \/ ProcessQuery
    \/ QueryEmbedReturn
    \/ QueryDbReturn
    \/ QueryToolsReturn
    \/ QueryGenerateReturn
    \/ ClearSession

SpecQuery == InitQuery /\ [][NextQuery]_vars

(***************************************************************************)
(* Properties of the registry.                                             *)
(***************************************************************************)
\* onModuleInit has returned
InitReturned == initPc \in {"done", "caught"}

\* onModuleInit ended with an error; no path of the code rethrows, so no
\* action sets this position
InitRejected == initPc = "failed"

\* C3: when a fetch of connectWithRetry returns a non-empty catalog on an
\* attempt within max-attempts, connect resolves at once: the registry holds
\* exactly that catalog, is marked connected, the monitor is started, and
\* connect makes no further attempt afterwards.
C3_ConnectResolvesWithFetchedCatalog ==
    [][ /\ (initPc = "fetch" /\ initPc' # "fetch" /\ FetchedSome(connectFetch'))
           => /\ tools' = connectFetch'.tools
              /\ isInitialized'
              /\ initPc' = "done"
              /\ attempts' = attempts
              /\ attempts <= maxAttempts
        /\ InitReturned => (initPc' = initPc /\ attempts' = attempts) ]_vars

\* three failed attempts (errors and empty catalogs), success on the fourth
C3_Witness ==
    /\ initPc = "done"
    /\ attempts = 4
    /\ FetchedSome(connectFetch)
    /\ tools = connectFetch.tools
    /\ isInitialized
    /\ retryDelay > initialRetryDelay * Scale

\* C4: when every fetch of connect fails, connect stops after max-attempts
\* attempts and module initialisation ends with an error.
C4_ExhaustedStartupFails ==
    (InitReturned \/ InitRejected) /\ ~isInitialized /\ attempts = maxAttempts
        => InitRejected

\* C5: once initialisation has returned and while the service is not shut
\* down, an empty catalog or a disconnected registry is picked up by the
\* monitor, which therefore is scheduled.
C5_MonitorScheduledWhenDown ==
    InitReturned /\ destroyPc = "none" /\ MonitorShouldRefresh(isInitialized, tools)
        => connectionMonitorInterval

\* C6: at most one catalog fetch is in flight at any time.
C6_OneFetchInFlight == FetchesInFlight <= 1

\* C7: after onModuleDestroy has completed no monitor timer is set and no
\* catalog fetch has been issued since.
C7_QuietAfterShutdown ==
    destroyPc = "done" => ~connectionMonitorInterval /\ ~fetchAfterClose

\* C8: no state has the session close begun and the monitor scheduled.
C8_NoMonitorWhileClosing ==
    destroyPc \in {"closing", "done"} => ~connectionMonitorInterval

\* C9: a backend configured with enabled = false is never asked for its
\* catalog.
C9_DisabledNeverContacted ==
    \A s \in Servers : ~mcpServers[s] => s \notin contacted

\* C10: the delays waited between attempts, jitter term excluded, never
\* decrease and never exceed max-delay.
C10_DelayMonotoneAndCapped ==
    [][ /\ waitedBase' >= waitedBase
        /\ waitedBase' <= maxRetryDelay * Scale ]_vars

\* a wait at the cap whose full delay, jitter included, lies above the cap
C10_Witness ==
    /\ initPc = "wait"
    /\ waitedBase = maxRetryDelay * Scale
    /\ jitterPart > 0
    /\ retryDelay > maxRetryDelay * Scale
    /\ attempts >= 7

\* C11: the delay waited after the n-th unsuccessful attempt of connect, be it
\* an error or an empty catalog, is min(base-delay * 1.5^n, max-delay) plus
\* one jitter term of [0, 1000) ms; no earlier jitter is inside it.
C11_DelayFollowsPolicy ==
    LET \* min(base-delay * 1.5^n, max-delay), in 1/Scale ms
        policy[n \in 0..maxAttempts] ==
            IF n = 0 THEN initialRetryDelay * Scale
            ELSE IF (3 * policy[n - 1]) \div 2 > maxRetryDelay * Scale
                 THEN maxRetryDelay * Scale
                 ELSE (3 * policy[n - 1]) \div 2
    IN  initPc = "wait" =>
            /\ retryDelay - policy[attempts] >= 0
            /\ retryDelay - policy[attempts] < jitterRange * Scale

\* C12: a getTools() call that found a cached catalog returns it and fetches
\* nothing; one that found none performs exactly one fetch and returns the
\* fetched catalog, the registry being connected, if that fetch gave a
\* non-empty catalog, and the empty catalog otherwise; it never raises.
C12_GetToolsFetchesOnceWhenEmpty ==
    \A c \in Callers :
        calls[c].pc = "returned" =>
            IF ~calls[c].emptyAtEntry
            THEN /\ calls[c].fetches = 0
                 /\ calls[c].returned = calls[c].cached
                 /\ calls[c].returned # <<>>
            ELSE /\ calls[c].fetches = 1
                 /\ IF FetchedSome(calls[c].fetched)
                    THEN /\ calls[c].returned = calls[c].fetched.tools
                         /\ isInitialized
                    ELSE calls[c].returned = <<>>

\* C13: a getTools() call returns the catalog the caller's previous call
\* returned when the servers' answer has not changed since that previous call
\* began.
C13_GetToolsIdempotent ==
    \A c \in Callers :
        (calls[c].pc = "returned" /\ calls[c].hasPrev /\ ~calls[c].chgPrev)
            => calls[c].returned = calls[c].prev

\* C14: every change of the registry's catalog installs the complete catalog
\* of the one fetch that resolved in that step; the catalog is always empty or
\* one complete catalog of the servers, and so is what every getTools() call
\* returns, which is the catalog the registry holds when the call returns.
\* (getToolByName and getDiagnostics read this.tools within one step, so they
\* observe the catalog of a reachable state.)
C14_CatalogReplacedWholesale ==
    [][ /\ tools' # tools => (FetchedSome(backend) /\ tools' = backend.tools)
        /\ tools' \in Catalogs
        /\ \A c \in Callers :
            /\ calls'[c].returned \in Catalogs
            /\ (calls[c].pc = "resuming" /\ calls'[c].pc = "returned")
                  => calls'[c].returned = tools
            /\ (calls[c].pc \in {"idle", "returned"} /\ calls'[c].pc = "returned"
                /\ backend' = backend /\ calls'[c] # calls[c])
                  => calls'[c].returned = tools ]_vars

\* two refreshes in flight together resolved with different catalogs: the
\* first caller read the first catalog whole, the second store replaced it
C14_Witness ==
    /\ calls[1].pc = "returned"
    /\ calls[1].fetched = Fetched(S3Catalog)
    /\ calls[1].returned = S3Catalog
    /\ calls[2].pc = "returned"
    /\ calls[2].emptyAtEntry
    /\ calls[2].fetched = Fetched(S3Catalog \o PgCatalog)
    /\ calls[2].returned = S3Catalog \o PgCatalog
    /\ tools = S3Catalog \o PgCatalog

\* the tool names of catalog t that are a backend-prefixed alias of name
Aliases(name, t) ==
    {x \in Names(t) : \/ Chars(x) = Chars("mcp__s3__") \o Chars(name)
                      \/ Chars(x) = Chars("mcp__postgres__") \o Chars(name)}

\* C15: getToolByName returns the tool named exactly as asked when the
\* catalog has one; otherwise a backend-prefixed alias when the catalog has
\* one; a tool found by substring heuristics only when the catalog has
\* neither; and the same catalog and name give the same result again.
C15_ResolvePrecedence ==
    [][ /\ lookup'.name \in Names(lookup'.catalog)
            => lookup'.result = lookup'.name
        /\ (lookup'.name \notin Names(lookup'.catalog)
            /\ Aliases(lookup'.name, lookup'.catalog) # {})
            => lookup'.result \in Aliases(lookup'.name, lookup'.catalog)
        /\ lookup'.result \notin
              ({lookup'.name} \cup Aliases(lookup'.name, lookup'.catalog))
            => /\ lookup'.name \notin Names(lookup'.catalog)
               /\ Aliases(lookup'.name, lookup'.catalog) = {}
               /\ lookup'.result \in Names(lookup'.catalog) \cup {NoTool}
        /\ (lookup'.name = lookup.name /\ lookup'.catalog = lookup.catalog)
            => lookup'.result = lookup.result ]_vars

\* the exact name is returned although a heuristic candidate and an alias
\* stand before it in the catalog
C15_Witness ==
    /\ lookup.name = "list_buckets"
    /\ lookup.catalog = <<"list_schemas", "mcp__s3__list_buckets", "list_buckets">>
    /\ lookup.result = "list_buckets"
    /\ lookup.nth = 0

(***************************************************************************)
(* Properties of the retrieval orchestrator.                               *)
(***************************************************************************)
\* C1: when a search branch raised an exception, the returned bundle has no
\* record of that branch, the other branch has run, and the fused list is
\* exactly what the other branch returned.
C1_FailedBranchLeavesOtherIntact ==
    rag.pc = "done" =>
        /\ rag.s3Raised =>
            /\ "postgres" \in rag.ran
            /\ rag.outcome.kind = "bundle"
            /\ rag.outcome.s3Results = <<>>
            /\ rag.outcome.postgresResults = rag.pgReturned
            /\ rag.outcome.combinedResults = rag.pgReturned
        /\ rag.pgRaised =>
            /\ "s3" \in rag.ran
            /\ rag.outcome.kind = "bundle"
            /\ rag.outcome.postgresResults = <<>>
            /\ rag.outcome.s3Results = rag.s3Returned
            /\ rag.outcome.combinedResults = rag.s3Returned

\* the relational strategy threw (no query tool) after the object store gave
\* two hits, both of which are in the fused list
C1_Witness ==
    /\ rag.pc = "done"
    /\ rag.pgRaised /\ ~rag.s3Raised
    /\ Len(rag.s3Returned) = 2
    /\ rag.outcome.combinedResults = rag.s3Returned

\* C2: retrieveRelevantInfo never raises: whatever the registry holds and
\* whatever fails, it returns a bundle that carries the query and holds no
\* more than the records the branches returned.
C2_AlwaysReturnsBundle ==
    /\ rag.outcome.kind # "raised"
    /\ rag.pc = "done" =>
        /\ rag.outcome.kind = "bundle"
        /\ rag.outcome.query = rag.query
        /\ rag.query \in Queries
        /\ Len(rag.outcome.combinedResults)
             <= Len(rag.s3Returned) + Len(rag.pgReturned)

\* empty catalog and a failed refresh: 'No tools available' is thrown and the
\* call still returns an empty bundle for the query
C2_Witness ==
    /\ rag.pc = "done"
    /\ tools = <<>>
    /\ rag.ran = {}
    /\ rag.outcome = Bundle(rag.query, <<>>, <<>>, <<>>)
    /\ rag.query \in Queries

\* C16: the fused list of a returned bundle is what the object-store strategy
\* returned followed by what the relational strategy returned, each as
\* returned; the per-source lists are those two results.
C16_FusedIsConcatenation ==
    rag.pc = "done" =>
        /\ rag.outcome.combinedResults = rag.s3Returned \o rag.pgReturned
        /\ rag.outcome.s3Results = rag.s3Returned
        /\ rag.outcome.postgresResults = rag.pgReturned

\* two object-store records followed by two relational records
C16_Witness ==
    /\ rag.pc = "done"
    /\ Len(rag.s3Returned) = 2
    /\ Len(rag.pgReturned) = 2
    /\ rag.s3Returned[1] # rag.s3Returned[2]
    /\ rag.pgReturned[1] # rag.pgReturned[2]
    /\ rag.outcome.combinedResults =
          <<rag.s3Returned[1], rag.s3Returned[2],
            rag.pgReturned[1], rag.pgReturned[2]>>

\* the awaits of the text phase and of the schema fallback
LaterPhases == {"pg_table", "pg_text", "pg_describe", "pg_sample"}

\* C17: once the vector phase has parsed at least one record, searchPostgres
\* has returned exactly those records and has issued neither the text phase's
\* queries nor the schema fallback's.
C17_VectorRecordsReturnedAtOnce ==
    Len(rag.vectorRecords) > 0 =>
        /\ rag.pc = "done"
        /\ rag.pgReturned = rag.vectorRecords
        /\ rag.outcome.postgresResults = rag.vectorRecords
        /\ rag.phases \cap LaterPhases = {}

\* the vector query gave two tickets
C17_Witness ==
    /\ rag.pc = "done"
    /\ "pg_vquery" \in rag.phases
    /\ Len(rag.vectorRecords) = 2
    /\ rag.pgReturned = rag.vectorRecords

\* the vector phase ended without a record: the probe failed or reported no
\* capability, the embedding failed or was empty, the vector query failed or
\* gave no record
VectorPhaseGaveNothing ==
    rag.vectorEnd \in {"probeFailed", "noCapability", "embedFailed",
                       "embedEmpty", "queryFailed", "noRecords"}

\* C18: the text phase (which starts with the table check) is entered exactly
\* when the vector phase ended without a record, for each of the ways it can
\* end so, and none of them makes the strategy or the query fail.
C18_TextPhaseIffVectorGaveNothing ==
    /\ VectorPhaseGaveNothing
        => ("pg_table" \in rag.phases /\ ~rag.pgRaised /\ rag.outcome.kind # "raised")
    /\ "pg_table" \in rag.phases => VectorPhaseGaveNothing
    /\ rag.vectorEnd = "records" => "pg_table" \notin rag.phases
    /\ (rag.pc = "done" /\ "pg_vcheck" \in rag.phases)
        => (rag.vectorEnd # "none" /\ rag.outcome.kind = "bundle")

\* the embedding provider failed; the text phase ran and gave two tickets
C18_Witness ==
    /\ rag.pc = "done"
    /\ rag.vectorEnd = "embedFailed"
    /\ "pg_text" \in rag.phases
    /\ Len(rag.pgReturned) = 2
    /\ ~rag.pgRaised
    /\ rag.outcome.postgresResults = rag.pgReturned

\* the ticket_ids of the rows that have one
TicketIds(rows) ==
    LET HasId(x) == x # ""
    IN  SelectSeq(rows, HasId)

\* searchPostgres returned after a vector phase and a text phase without a
\* record
BothPhasesGaveNothing ==
    /\ rag.pc = "done"
    /\ "pg_table" \in rag.phases
    /\ rag.vectorRecords = <<>>
    /\ TicketIds(rag.textRows) = <<>>

\* the schema fallback is entered only after two phases without a record
FallbackOnlyAfterNothing ==
    "pg_describe" \in rag.phases
        => (rag.vectorRecords = <<>> /\ TicketIds(rag.textRows) = <<>>)

\* C19 as stated: if the vector and the text phase both yield zero records,
\* searchPostgres returns exactly one record, tagged as schema fallback
\* (metadata.searchMethod = 'fallback'); the fallback runs only in that case.
C19_AlwaysOneFallbackRecord ==
    /\ BothPhasesGaveNothing
        => /\ Len(rag.pgReturned) = 1
           /\ "searchMethod" \in DOMAIN rag.pgReturned[1].metadata
           /\ rag.pgReturned[1].metadata.searchMethod = "fallback"
    /\ FallbackOnlyAfterNothing

\* C19, amended: if the vector and the text phase both yield zero records,
\* searchPostgres returns exactly one record, tagged as schema fallback, when
\* describe_table resolves and the description and the sample row are both
\* fetched, and no record otherwise; the fallback runs only in that case.
C19_OneFallbackRecordWhenFetched ==
    /\ BothPhasesGaveNothing
        => IF rag.schemaFetch = "fetched"
           THEN /\ Len(rag.pgReturned) = 1
                /\ "searchMethod" \in DOMAIN rag.pgReturned[1].metadata
                /\ rag.pgReturned[1].metadata.searchMethod = "fallback"
                /\ rag.pgReturned[1].source = <<"postgres:schema:support_tickets">>
           ELSE /\ rag.pgReturned = <<>>
                /\ rag.schemaFetch \in {"noTool", "describeFailed", "sampleFailed"}
    /\ FallbackOnlyAfterNothing

\* no vector capability, no row from the text query; description and sample
\* fetched: one schema record
C19_Witness ==
    /\ BothPhasesGaveNothing
    /\ "pg_text" \in rag.phases
    /\ rag.schemaFetch = "fetched"
    /\ Len(rag.pgReturned) = 1
    /\ rag.pgReturned[1].metadata.searchMethod = "fallback"
    /\ rag.outcome.postgresResults = rag.pgReturned

\* C20: when the text query returned rows (the vector phase having given no
\* record), searchPostgres returns one record for each row that has a
\* ticket_id, in row order and nothing else, its source naming
\* support_tickets and the ticket_id ('postgres:support_tickets:<id>') and
\* its metadata.searchMethod being 'text_search'; rows without a ticket_id
\* give no such record.
C20_TextRowsBecomeTextRecords ==
    (rag.pc = "done" /\ rag.textRows # <<>>) =>
        LET ids == TicketIds(rag.textRows)
        IN  /\ rag.vectorRecords = <<>>
            /\ ids # <<>> =>
                /\ Len(rag.pgReturned) = Len(ids)
                /\ \A i \in 1..Len(ids) :
                    /\ rag.pgReturned[i].source =
                          <<"postgres:support_tickets:", ids[i]>>
                    /\ "searchMethod" \in DOMAIN rag.pgReturned[i].metadata
                    /\ rag.pgReturned[i].metadata.searchMethod = "text_search"
            /\ ids = <<>> =>
                \A i \in 1..Len(rag.pgReturned) :
                    /\ rag.pgReturned[i].metadata.searchMethod # "text_search"
                    /\ rag.pgReturned[i].source[1] # "postgres:support_tickets:"

\* the text query returned three rows, the second without a ticket_id: two
\* records, for KALI-3001 and KALI-3002
C20_Witness ==
    /\ rag.pc = "done"
    /\ rag.textRows = <<"KALI-3001", "", "KALI-3002">>
    /\ Len(rag.pgReturned) = 2
    /\ rag.pgReturned[1].source = <<"postgres:support_tickets:", "KALI-3001">>
    /\ rag.pgReturned[2].source = <<"postgres:support_tickets:", "KALI-3002">>
    /\ rag.pgReturned[1].metadata.searchMethod = "text_search"

(***************************************************************************)
(* Properties of the object-store strategy.                                *)
(***************************************************************************)
\* searchS3 has settled in the request being served
S3Finished ==
    "s3" \in rag.ran /\ rag.pc \notin {"s3_list", "s3_search", "s3_content"}

\* the entries of a bucket list that carry a name
NamedBuckets(listed) == SelectSeq(listed, LAMBDA b : b # "")

\* the hits with a key of one search response, with their bucket
HitsOfSearch(srch) ==
    LET keyed == SelectSeq(srch.objects, LAMBDA o : o.key # "")
    IN  [i \in 1..Len(keyed) |-> [bucket |-> srch.bucket, obj |-> keyed[i]]]

\* the hits with a key of the searches, bucket after bucket
RECURSIVE KeyedHits(_)
KeyedHits(searched) ==
    IF searched = <<>> THEN <<>>
    ELSE HitsOfSearch(Head(searched)) \o KeyedHits(Tail(searched))

\* every hit with a key was fetched, in bucket order then hit order
HitsFetchedInOrder ==
    [i \in 1..Len(rag.fetchedHits) |->
        [bucket |-> rag.fetchedHits[i].bucket, obj |-> rag.fetchedHits[i].obj]]
      = KeyedHits(rag.searched)

\* every named bucket of the listing was searched, in the order listed
BucketsSearchedInOrder ==
    [i \in 1..Len(rag.searched) |-> rag.searched[i].bucket]
      = NamedBuckets(rag.listed)

\* C21: when searchS3 returns, its result holds one record for each hit whose
\* content came back non-empty, in the order the hits were fetched (bucket
\* order, then hit order) and no other record; the record's source is
\* s3://<bucket>/<key> of its hit and its metadata.size is the hit's size.
C21_OneRecordPerFetchedHit ==
    (S3Finished /\ ~rag.s3Raised) =>
        LET got == SelectSeq(rag.fetchedHits, LAMBDA h : h.out = "text")
        IN  /\ HitsFetchedInOrder
            /\ Len(rag.s3Returned) = Len(got)
            /\ \A i \in 1..Len(got) :
                /\ rag.s3Returned[i].content = "text"
                /\ rag.s3Returned[i].source =
                      <<"s3://", got[i].bucket, "/", got[i].obj.key>>
                /\ rag.s3Returned[i].metadata.size = got[i].obj.size

\* the scenario of the specification: two buckets, one of them with a single
\* matching object of 50 bytes
C21_Witness ==
    /\ rag.pc = "done"
    /\ rag.listed = <<"bucket1", "bucket2">>
    /\ Len(rag.s3Returned) = 1
    /\ rag.s3Returned[1].source = <<"s3://", "bucket1", "/", "key1">>
    /\ rag.s3Returned[1].metadata.size = 50
    /\ rag.outcome.s3Results = rag.s3Returned

\* C22: a hit whose content fetch raised or came back empty gives no record,
\* and the hits after it and the buckets after it are still fetched and
\* searched; a bucket whose search raised is followed by the search of the
\* next buckets.
C22_SkippedHitKeepsSiblings ==
    (S3Finished /\ ~rag.s3Raised /\ rag.listEnd = "buckets") =>
        /\ BucketsSearchedInOrder
        /\ HitsFetchedInOrder
        /\ \A i \in 1..Len(rag.fetchedHits) :
            rag.fetchedHits[i].out # "text" =>
                \A k \in 1..Len(rag.s3Returned) :
                    rag.s3Returned[k].source #
                        <<"s3://", rag.fetchedHits[i].bucket, "/",
                          rag.fetchedHits[i].obj.key>>

\* the search of the first bucket raised; in the second bucket the fetch of
\* the first hit raised and the second hit gave the only record
C22_Witness ==
    /\ rag.pc = "done"
    /\ Len(rag.searched) = 2
    /\ rag.searched[1].failed /\ ~rag.searched[2].failed
    /\ Len(rag.fetchedHits) = 2
    /\ rag.fetchedHits[1].out = "throw"
    /\ rag.fetchedHits[2].out = "text"
    /\ Len(rag.s3Returned) = 1
    /\ rag.s3Returned[1].metadata.key = rag.fetchedHits[2].obj.key

\* C23: when list_buckets cannot be resolved, or the listing holds no bucket,
\* the bundle holds no object-store record and neither search_objects nor
\* get_object_content was invoked; an empty listing makes searchS3 return.
C23_NoBucketsNoSearch ==
    (S3Finished
       /\ (rag.listEnd = "noTool" \/ (rag.listEnd = "buckets" /\ rag.listed = <<>>)))
    =>  /\ rag.s3Returned = <<>>
        /\ rag.s3Results = <<>>
        /\ rag.phases \cap {"s3_search", "s3_content"} = {}
        /\ rag.searched = <<>> /\ rag.fetchedHits = <<>>
        /\ rag.listEnd = "buckets" => ~rag.s3Raised
        /\ rag.pc = "done" => rag.outcome.s3Results = <<>>

\* no tool answers to list_buckets: searchS3 throws, the relational strategy
\* still runs and the bundle has no object-store record
C23_Witness ==
    /\ rag.pc = "done"
    /\ rag.listEnd = "noTool"
    /\ rag.s3Raised
    /\ "s3_list" \notin rag.phases
    /\ "postgres" \in rag.ran
    /\ rag.outcome.s3Results = <<>>

\* C31: in a run of searchS3 at most one tool invocation is outstanding at any
\* time; when the search of a bucket is outstanding, every hit with a key of
\* the buckets searched before has had its content fetch settled, and the
\* buckets searched are the first named buckets of the listing; when a
\* content fetch is outstanding, the fetches settled are the hits before it.
C31_OneInvocationOutstanding ==
    LET hits == KeyedHits(rag.searched)
        named == NamedBuckets(rag.listed)
        fetched == [i \in 1..Len(rag.fetchedHits) |->
                      [bucket |-> rag.fetchedHits[i].bucket,
                       obj |-> rag.fetchedHits[i].obj]]
    IN  /\ rag.outstanding \in {0, 1}
        /\ rag.pc \in {"s3_list", "s3_search", "s3_content"} => rag.outstanding = 1
        /\ rag.pc = "s3_search" =>
              /\ fetched = hits
              /\ Len(rag.searched) < Len(named)
              /\ \A i \in 1..Len(rag.searched) : rag.searched[i].bucket = named[i]
              /\ rag.bucketName = named[Len(rag.searched) + 1]
        /\ rag.pc = "s3_content" =>
              /\ Len(fetched) < Len(hits)
              /\ fetched = SubSeq(hits, 1, Len(fetched))
              /\ rag.obj = hits[Len(fetched) + 1].obj

\* the search of the second bucket is outstanding after the two content
\* fetches of the first bucket settled
C31_Witness ==
    /\ rag.pc = "s3_search"
    /\ rag.outstanding = 1
    /\ rag.bucketName = "bucket2"
    /\ Len(rag.searched) = 1
    /\ Len(rag.fetchedHits) = 2

(***************************************************************************)
(* What a resolved tool does.                                              *)
(***************************************************************************)
\* requiredToolSets: the operation a tool serves, by the name variants the
\* registry knows for it
OperationOf(x) ==
    IF NameHas(x, "list_buckets") THEN "list_buckets"
    ELSE IF NameHas(x, "search_objects") THEN "search_objects"
    ELSE IF NameHas(x, "get_object_content") THEN "get_object_content"
    ELSE IF NameHas(x, "query") \/ NameHas(x, "sql") THEN "query"
    ELSE IF NameHas(x, "list_schemas") THEN "list_schemas"
    ELSE IF NameHas(x, "describe_table") THEN "describe_table"
    ELSE "other"

\* C29: a lookup of list_buckets, search_objects, get_object_content or query
\* that returns a tool returns a tool of that operation: never a relational
\* tool for an object-store operation, never a tool of another object-store
\* operation, never a tool that is no query tool for query.
C29_ResolveYieldsNamedOperation ==
    (lookup.name \in {"list_buckets", "search_objects", "get_object_content",
                      "query"}
       /\ lookup.result # NoTool)
    => OperationOf(lookup.result) = lookup.name

(***************************************************************************)
(* The search method of relational records.                                *)
(***************************************************************************)
\* result.metadata.searchMethod, "none" for a record that carries none
SearchMethodOf(rec) ==
    IF "searchMethod" \in DOMAIN rec.metadata THEN rec.metadata.searchMethod
    ELSE "none"

\* the phase whose records the relational strategy returned
ProducingPhase ==
    IF rag.vectorRecords # <<>> THEN "vector"
    ELSE IF rag.schemaFetch = "fetched" THEN "fallback"
    ELSE "text_search"

\* all records of a result carry the same search method (or all none)
OneMethodPerResult ==
    rag.pc = "done" =>
        \A i, k \in 1..Len(rag.pgReturned) :
            SearchMethodOf(rag.pgReturned[i]) = SearchMethodOf(rag.pgReturned[k])

\* C30: every record the relational strategy returned carries a searchMethod
\* naming the phase that produced it (vector, text_search, fallback), and
\* the records of one result all come from one phase.
C30_RecordsTaggedByPhase ==
    rag.pc = "done" =>
        /\ \A i \in 1..Len(rag.pgReturned) :
            SearchMethodOf(rag.pgReturned[i]) = ProducingPhase
        /\ OneMethodPerResult

(***************************************************************************)
(* Properties of the normalizer.                                           *)
(***************************************************************************)
\* the response normalized is a text block: header line, separator line,
\* then rows
IsTextBlock(resp) ==
    /\ resp.kind = "string"
    /\ Len(resp.lines) >= 2
    /\ resp.lines[1] = HeaderLine
    /\ resp.lines[2] = SeparatorLine

\* the value of the ticket_id field of a row, empty when it has none
TicketIdOf(line) ==
    IF \E j \in 1..Len(line) : Head(line[j]) = "ticket_id"
    THEN Tail(line[CHOOSE j \in 1..Len(line) : Head(line[j]) = "ticket_id"])
    ELSE <<>>

\* the rows of a text block that carry a ticket_id, in row order
RowsWithId(resp) ==
    SelectSeq(SubSeq(resp.lines, 3, Len(resp.lines)),
              LAMBDA line : ~Falsy(TicketIdOf(line)))

\* the JSON-like fields of a row
JsonFieldNames == {"customer", "resolution", "metadata"}

\* the record holds what the JSON-like field f of its row gave: the parsed
\* structure (for the metadata field, its keys), or the text under a raw key
FieldKept(rec, line, f) ==
    LET text == Field(RowObject(line), f)
        data == tryParseJson(text)
    IN  IF IsObject(data)
        THEN IF f = "metadata"
             THEN \A i \in 1..Len(data.entries) :
                    data.entries[i].k \in DOMAIN rec.metadata
             ELSE f \in DOMAIN rec.metadata /\ rec.metadata[f] = data
        ELSE \E k \in {f, "raw"} \cap DOMAIN rec.metadata :
                rec.metadata[k] = [raw |-> text]

\* C24: the normalizer does not raise, and for every JSON-like field value
\* of a row (customer, resolution, metadata) its record holds the parsed or
\* repaired structure or, when the repair fails too, the text under a raw
\* key.
C24_JsonFieldKeptOrRaw ==
    (IsTextBlock(parse.input) /\ parse.outcome.kind \notin {"none", "pending"})
    =>  /\ parse.outcome.kind = "list"
        /\ Len(parse.outcome.records) = Len(RowsWithId(parse.input))
        /\ \A i \in 1..Len(RowsWithId(parse.input)) :
            \A f \in JsonFieldNames :
                ~Falsy(Field(RowObject(RowsWithId(parse.input)[i]), f))
                => FieldKept(parse.outcome.records[i],
                             RowsWithId(parse.input)[i], f)

\* C25: for a text block the normalizer returns one record for each row that
\* carries a ticket_id, in row order, with that ticket_id, and none for a
\* blank row or a row without one.
C25_OneRecordPerIdentifiedRow ==
    (IsTextBlock(parse.input) /\ parse.outcome.kind \notin {"none", "pending"})
    =>  /\ parse.outcome.kind = "list"
        /\ Len(parse.outcome.records) = Len(RowsWithId(parse.input))
        /\ \A i \in 1..Len(RowsWithId(parse.input)) :
            /\ parse.outcome.records[i].metadata.ticketId
                  = TicketIdOf(RowsWithId(parse.input)[i])
            /\ parse.outcome.records[i].source
                  = <<"postgres:support_tickets:">>
                      \o TicketIdOf(RowsWithId(parse.input)[i])

\* a blank row, then a row with a ticket_id: one record, of the second row
C25_Witness ==
    /\ IsTextBlock(parse.input)
    /\ Len(parse.input.lines) = 4
    /\ parse.input.lines[3] = <<>>
    /\ TicketIdOf(parse.input.lines[4]) = <<"KALI-3002">>
    /\ parse.outcome.kind = "list"
    /\ Len(parse.outcome.records) = 1
    /\ parse.outcome.records[1].metadata.ticketId = <<"KALI-3002">>

\* C26: whatever the raw response is (an object, an array, a string, empty,
\* without header and separator, with malformed fields), the normalizer
\* returns a list of records and raises nothing.
C26_NormalizerNeverRaises ==
    parse.outcome.kind \in {"none", "pending", "list"}

(***************************************************************************)
(* Properties of the chat services.                                        *)
(***************************************************************************)
\* the array request c pushed to holds its message and, later, the answer
HoldsExchange(c) ==
    LET h == heap[chats[c].chatHistory]
    IN  \E i, k \in 1..Len(h) : i < k /\ h[i] = Human(c) /\ h[k] = AI(c)

\* C27: when storeInteraction returned false or raised, processChat still
\* returns the agent's response, and the history of its session (unless the
\* session was cleared meanwhile) holds the message and the answer.
C27_StoreFailureKeepsResponse ==
    \A c \in Requests :
        (chats[c].pc = "done" /\ chats[c].stored \in {"false", "throw"}) =>
            /\ chats[c].outcome = Response("answer")
            /\ HoldsExchange(c)
            /\ ~chats[c].cleared =>
                    chatHistories[chats[c].sessionId] = chats[c].chatHistory

\* the store raised for one request and returned false for another of the
\* same session; both returned the answer and the session holds both
\* exchanges
C27_Witness ==
    /\ chats[1].pc = "done" /\ chats[2].pc = "done"
    /\ chats[1].stored = "throw" /\ chats[2].stored = "false"
    /\ chats[1].sessionId = chats[2].sessionId
    /\ ~chats[1].cleared
    /\ chats[1].outcome = Response("answer")
    /\ chats[2].outcome = Response("answer")
    /\ Len(heap[chatHistories[chats[1].sessionId]]) = 4

C32_OneSectionPerRecord ==
    fmt.done =>
        LET ctx == fmt.context
            heads == SelectSeq(ctx, LAMBDA l : l.kind = "heading")
        IN  IF fmt.input = <<>> THEN ctx = <<>>
            ELSE /\ Len(heads) = Len(fmt.input)
                 /\ \A i \in 1..Len(heads) :
                      /\ heads[i].n = i
                      /\ heads[i].source = fmt.input[i].source
                 /\ \A k \in 1..Len(ctx) :
                      ctx[k].kind = "heading" =>
                          /\ k < Len(ctx)
                          /\ ctx[k + 1].kind = "content"
                          /\ ctx[k + 1].text = fmt.input[ctx[k].n].content
                 /\ Len(SelectSeq(ctx, LAMBDA l : l.kind = "content")) = Len(heads)
                 /\ ctx[Len(ctx)].kind = "closing"
                 /\ Len(SelectSeq(ctx, LAMBDA l : l.kind = "closing")) = 1

\* an object-store record and a ticket with images, formatted
C32_Witness ==
    /\ fmt.done
    /\ Len(fmt.input) = 2
    /\ IsS3Source(fmt.input[1].source)
    /\ "images" \in DOMAIN fmt.input[2].metadata
    /\ Len(fmt.input[2].metadata.images) = 2
    /\ fmt.context[2].kind = "heading" /\ fmt.context[2].n = 1
    /\ fmt.context[Len(fmt.context)].kind = "closing"

(***************************************************************************)
(* Properties of the diagnostics.                                          *)
(***************************************************************************)
\* C33: when getDiagnostics reported hasAllRequiredTools = true for a
\* catalog, getToolByName on that catalog returns a tool for each of
\* list_buckets, search_objects, get_object_content, query, list_schemas and
\* describe_table.
C33_AllRequiredResolve ==
    (/\ diag.called
     /\ diag.hasAllRequiredTools
     /\ lookup.name \in RequiredNames
     /\ lookup.catalog = diag.allToolNames)
    => lookup.result # NoTool

(***************************************************************************)
(* Properties of the connected registry.                                   *)
(***************************************************************************)
\* C34: in every state isInitialized implies a non-empty catalog; no step
\* takes isInitialized from true to false and no step replaces a non-empty
\* catalog by an empty one, whatever the fetches in flight return and through
\* onModuleDestroy.
C34_ConnectedHoldsCatalog ==
    /\ [](isInitialized => Len(tools) > 0)
    /\ [][ /\ isInitialized => isInitialized'
           /\ Len(tools) > 0 => Len(tools') > 0 ]_vars

\* the registry was connected by a refresh, the fetch of connectWithRetry
\* came back with an error and the module was destroyed: the catalog is held
C34_Witness ==
    /\ isInitialized
    /\ Len(tools) > 0
    /\ connectFetch = FetchError
    /\ initPc = "done"
    /\ destroyPc = "done"
    /\ refreshing = 0

\* C35: the step in which the fetch of a refreshTools call settles with an
\* error or with an empty catalog changes neither the catalog nor
\* isInitialized, and the caller awaiting the refresh resumes (getTools goes
\* on to return this.tools).
C35_FailedRefreshChangesNothing ==
    [][ \A c \in Callers :
          (calls[c].pc = "fetching" /\ calls'[c].pc # "fetching"
           /\ ~FetchedSome(calls'[c].fetched))
          => /\ tools' = tools
             /\ isInitialized' = isInitialized
             /\ calls'[c].pc = "resuming" ]_vars

\* the servers went away after another refresh had connected the registry:
\* the failed refresh left the catalog it found
C35_Witness ==
    \E c \in Callers :
        /\ calls[c].pc = "returned"
        /\ calls[c].fetched = FetchError
        /\ Len(calls[c].held) > 0
        /\ calls[c].returned = calls[c].held
        /\ tools = calls[c].held
        /\ isInitialized

(***************************************************************************)
(* Properties of the session histories of the RAG API.                     *)
(***************************************************************************)
\* C36: after any sequence of addToHistory calls the history of each session
\* holds at most chatHistoryLimit messages, and they are the messages added
\* to that session last, in the order they were added; no message of another
\* session is among them.
C36_HistoryHoldsLastMessages ==
    \A sid \in Sessions :
        LET history == getSessionHistory(agent.chatHistory, sid)
            all == agent.added[sid]
            kept == IF Len(all) > chatHistoryLimit THEN chatHistoryLimit
                    ELSE Len(all)
        IN  /\ Len(history) <= chatHistoryLimit
            /\ Len(history) = kept
            /\ history = SubSeq(all, Len(all) - kept + 1, Len(all))
            /\ \A i \in 1..Len(history) : history[i].content[1] = sid

\* eleven messages were added to one session and one to the other: the first
\* message of the one is gone, the other holds its own
C36_Witness ==
    /\ Len(agent.added["s1"]) = 11
    /\ Len(agent.chatHistory["s1"]) = 10
    /\ agent.chatHistory["s1"][1].content = <<"s1", 2>>
    /\ agent.chatHistory["s1"][10].content = <<"s1", 11>>
    /\ Len(agent.added["s2"]) = 1
    /\ agent.chatHistory["s2"][1].content = <<"s2", 1>>

\* C38: once clearSession(s) has returned, the history of s holds only
\* messages of requests that started after the clear.
C38_ClearedHistoryStaysCleared ==
    \A sid \in Sessions :
        agent.clearedAt[sid] >= 0 =>
            \A i \in 1..Len(getSessionHistory(agent.chatHistory, sid)) :
                getSessionHistory(agent.chatHistory, sid)[i].content[2]
                    > agent.clearedAt[sid]

(***************************************************************************)
(* Properties of the chat histories of the MCP client.                     *)
(***************************************************************************)
\* C37: whenever no processChat call for a session is in flight, the array
\* chatHistories holds for the session has a human message at every odd
\* place and an AI message at every even place.
C37_HistoryAlternates ==
    \A sid \in Sessions :
        (/\ chatHistories[sid] # 0
         /\ \A c \in Requests :
              chats[c].sessionId = sid => chats[c].pc \in {"idle", "done"})
        => \A i \in 1..Len(heap[chatHistories[sid]]) :
              heap[chatHistories[sid]][i][1] = (IF i % 2 = 1 THEN "human" ELSE "ai")

\* C39: for a request whose interaction was written to the transcript store,
\* retrieveRelevantInfo ran once and the evidence written is the evidence
\* that was formatted into the agent's context.
C39_PersistedEvidenceIsContextEvidence ==
    \A c \in Requests :
        chats[c].stored = "true"
        => /\ chats[c].retrievals = 1
           /\ chats[c].persisted = chats[c].context.combinedResults

====
